---- MODULE Spec2Model ----
(***************************************************************************)
(* meshai: the context-memory layer.                                       *)
(*   RollingSummaryMemory  (src/meshai/memory.py)   the in-process summary *)
(*                                                   cache                 *)
(*   ConversationHistory   (src/meshai/history.py)  the SQLite store: the  *)
(*                                                   conversations table   *)
(*                                                   and the               *)
(*                                                   conversation_summaries*)
(*                                                   table                 *)
(* Every operation is one action: the asyncio.Lock of the store is held    *)
(* for the whole of each store operation, and a get_context_messages call  *)
(* that is not interleaved with another one runs from its first line to    *)
(* its return.                                                             *)
(***************************************************************************)
EXTENDS Integers, Sequences, FiniteSets, TLC

VARIABLES
    now,                    \* time.time(), read by every operation that stamps or expires
    window_size,            \* RollingSummaryMemory._window_size
    summarize_threshold,    \* RollingSummaryMemory._summarize_threshold
    summaries,              \* RollingSummaryMemory._summaries : user -> ConversationSummary
    memCall,                \* the last operation on the memory: arguments and result
    max_messages_per_user,  \* HistoryConfig.max_messages_per_user
    conversation_timeout,   \* HistoryConfig.conversation_timeout
    conversations,          \* table conversations: a set of rows
    next_id,                \* the AUTOINCREMENT sequence of conversations.id
    appended,               \* user -> appends since the last delete that was not a prune
    storeCall,              \* the last operation on the conversations table
    conversation_summaries, \* table conversation_summaries: a set of rows
    lastStored,             \* user -> what the last store_summary wrote, None once cleared
    sumCall,                \* the last operation on the conversation_summaries table
    retry_attempts,         \* LLMConfig.retry_attempts
    fallback_on_error,      \* LLMConfig.fallback_on_error
    fallback_on_timeout,    \* LLMConfig.fallback_on_timeout
    fallback,               \* FallbackBackend.fallback is not None
    using_fallback,         \* FallbackBackend._using_fallback
    gen,                    \* task -> its generate call: where it is suspended, and how it ended
    started,                \* generate calls entered so far
    served,                 \* the backends that served the last two successful calls
    messages_per_minute,    \* RateLimitsConfig.messages_per_minute
    global_messages_per_minute, \* RateLimitsConfig.global_messages_per_minute
    cooldown_seconds,       \* RateLimitsConfig.cooldown_seconds
    burst_allowance,        \* RateLimitsConfig.burst_allowance
    vip_nodes,              \* RateLimiter.vip_nodes
    user_states,            \* RateLimiter._user_states : user -> UserRateState
    global_times,           \* RateLimiter._global_times
    rateCall,               \* the last operation on the rate limiter
    turns,                  \* user -> how the caller has used the limiter so far
    lock,                   \* ConversationHistory._lock: the task holding it
    waiters,                \* the tasks waiting for _lock, in the order they arrived
    store,                  \* task -> its call of a ConversationHistory method
    committed,              \* the database as of the last successful COMMIT
    faults,                 \* storage errors raised so far
    ctx,                    \* task -> its call of get_context_messages
    handling,               \* MeshAI._on_message: the message being handled
    origin                  \* user -> where the cached summary of the user came from

memVars   == <<window_size, summarize_threshold, summaries, memCall>>
storeVars == <<max_messages_per_user, conversation_timeout, conversations, next_id,
               appended, storeCall>>
sumVars   == <<conversation_summaries, lastStored, sumCall>>
genVars   == <<retry_attempts, fallback_on_error, fallback_on_timeout, fallback,
               using_fallback, gen, started, served>>
convVars  == <<memVars, storeVars, sumVars>>
rateVars  == <<messages_per_minute, global_messages_per_minute, cooldown_seconds,
               burst_allowance, vip_nodes, user_states, global_times, rateCall,
               turns>>
taskVars  == <<lock, waiters, store, committed, faults>>
concVars  == <<taskVars, ctx, handling, origin>>
restVars  == <<genVars, rateVars, concVars>>
vars      == <<now, memVars, storeVars, sumVars, genVars, rateVars, concVars>>

(***************************************************************************)
(* Bounds of the model                                                     *)
(***************************************************************************)
MaxHist == 10
MaxLongHist == 30
MaxHistOther == 3
MaxTime == 2
MaxAppends == 7
MaxAppendsOther == 2

Users == {"u1", "u2"}

(***************************************************************************)
(* Python values                                                           *)
(***************************************************************************)
Min(a, b) == IF a <= b THEN a ELSE b
Max(a, b) == IF a >= b THEN a ELSE b
Abs(a) == IF a >= 0 THEN a ELSE -a

\* The position a slice bound k denotes in a list of length n.
PyIndex_fromEnd(n, k) == IF k > 0 THEN Min(k, n) ELSE Max(n + k, 0)
PyIndex(n, k) == IF k >= 0 THEN Min(k, n) ELSE Max(n + k, 0)
\* s[:k]
PySliceTo(s, k) == SubSeq(s, 1, PyIndex(Len(s), k))
\* s[k:]
PySliceFrom(s, k) == SubSeq(s, PyIndex(Len(s), k) + 1, Len(s))

\* str.strip() on a string kept as a sequence of characters.
RECURSIVE LStrip(_)
LStrip(s) == IF s # <<>> /\ Head(s) = " " THEN LStrip(Tail(s)) ELSE s
RECURSIVE RStrip(_)
RStrip(s) == IF s # <<>> /\ s[Len(s)] = " " THEN RStrip(SubSeq(s, 1, Len(s) - 1)) ELSE s
Strip(s) == RStrip(LStrip(s))

(***************************************************************************)
(* Texts.  A summary text is what _summarize returns: the stripped reply   *)
(* of the model, or one of three fixed sentences, two of which carry       *)
(* len(messages).                                                          *)
(***************************************************************************)
NoneText          == [kind |-> "None", chars |-> <<>>, n |-> 0]
NoPreviousText    == [kind |-> "No previous conversation.", chars |-> <<>>, n |-> 0]
ReplyText(c)      == [kind |-> "reply", chars |-> c, n |-> 0]
EmptyReplyText(k) == [kind |-> "Previous conversation: {n} messages.", chars |-> <<>>, n |-> k]
FallbackText(k)   == [kind |-> "Previous conversation: {n} messages about various topics.",
                      chars |-> <<>>, n |-> k]

\* What the chat-completion call of _summarize can do: raise, or answer with
\* message.content None (the empty string is as false as None) or some text.
LLMOutcomes ==
    { [kind |-> "raise", chars |-> <<>>],
      [kind |-> "none", chars |-> <<>>],
      [kind |-> "text", chars |-> <<" ", "A", " ">>] }

(***************************************************************************)
(* Histories handed to the memory: role-tagged messages, user first.       *)
(***************************************************************************)
Message(i) == [role |-> IF i % 2 = 1 THEN "user" ELSE "assistant", content |-> i]
History(n) == [i \in 1..n |-> Message(i)]

(***************************************************************************)
(* RollingSummaryMemory                                                    *)
(***************************************************************************)
NoSummary == [summary |-> NoneText, last_updated |-> -1, message_count |-> -1]
ConversationSummary(text, t, count) ==
    [summary |-> text, last_updated |-> t, message_count |-> count]

\* memory.py:79
IsShort_lt(full_history) == Len(full_history) < window_size * 2
IsShort(full_history) == Len(full_history) <= window_size * 2

\* memory.py:83
SplitPoint_half == -window_size
SplitPoint == -(window_size * 2)

\* memory.py:84
OldMessages(full_history) == PySliceTo(full_history, SplitPoint)
\* memory.py:85
RecentMessages(full_history) == PySliceFrom(full_history, SplitPoint)

\* memory.py:99-104: the cached summary is returned
CacheReusable_le(user_id, messages) ==
    /\ summaries[user_id] # NoSummary
    /\ Abs(summaries[user_id].message_count - Len(messages)) <= summarize_threshold
CacheReusable_anyuser(user_id, messages) ==
    \E u \in Users :
        /\ summaries[u] # NoSummary
        /\ Abs(summaries[u].message_count - Len(messages)) < summarize_threshold
CacheReusable(user_id, messages) ==
    /\ summaries[user_id] # NoSummary
    /\ Abs(summaries[user_id].message_count - Len(messages)) < summarize_threshold

\* memory.py:119-153: [text, llm (the completion call was made), raised]
Summarize_noexcept(messages, reply) ==
    IF messages = <<>>
    THEN [text |-> NoPreviousText, llm |-> FALSE, raised |-> FALSE]
    ELSE IF reply.kind = "raise"
    THEN [text |-> NoneText, llm |-> TRUE, raised |-> TRUE]
    ELSE IF reply.kind = "text" /\ reply.chars # <<>>
    THEN [text |-> ReplyText(Strip(reply.chars)), llm |-> TRUE, raised |-> FALSE]
    ELSE [text |-> EmptyReplyText(Len(messages)), llm |-> TRUE, raised |-> FALSE]
Summarize(messages, reply) ==
    IF messages = <<>>
    THEN [text |-> NoPreviousText, llm |-> FALSE, raised |-> FALSE]
    ELSE IF reply.kind = "raise"
    THEN [text |-> FallbackText(Len(messages)), llm |-> TRUE, raised |-> FALSE]
    ELSE IF reply.kind = "text" /\ reply.chars # <<>>
    THEN [text |-> ReplyText(Strip(reply.chars)), llm |-> TRUE, raised |-> FALSE]
    ELSE [text |-> EmptyReplyText(Len(messages)), llm |-> TRUE, raised |-> FALSE]

\* memory.py:110-114
NewSummary_nocount(messages, text) == ConversationSummary(text, now, 0)
NewSummary(messages, text) == ConversationSummary(text, now, Len(messages))

MemCall(op, user_id) ==
    [op |-> op, user |-> user_id, history |-> <<>>, old |-> <<>>,
     summary |-> NoneText, recent |-> <<>>,
     hit |-> FALSE, summarized |-> FALSE, llm |-> FALSE, failed |-> FALSE,
     raised |-> FALSE, repeat |-> FALSE, after_load |-> FALSE]

\* The operation right before this call was load_summary for the same user.
IsAfterLoad(user_id) == memCall.op = "load_summary" /\ memCall.user = user_id

\* This call has the user and the history of the operation right before it.
IsRepeat(user_id, full_history) ==
    /\ memCall.op = "get_context_messages"
    /\ memCall.user = user_id
    /\ memCall.history = full_history

\* The completion call is made only for a non-empty list of messages.
RepliesTo(messages) ==
    IF messages = <<>> THEN { [kind |-> "none", chars |-> <<>>] } ELSE LLMOutcomes

\* memory.py:63-117: get_context_messages with _get_or_create_summary
GetContextMessages(user_id, full_history) ==
    LET call == [MemCall("get_context_messages", user_id) EXCEPT
                    !.history = full_history,
                    !.repeat = IsRepeat(user_id, full_history),
                    !.after_load = IsAfterLoad(user_id)]
        old_messages == OldMessages(full_history)
        recent_messages == RecentMessages(full_history)
        long == [call EXCEPT !.old = old_messages]
    IN
    /\ IF IsShort(full_history)
       THEN /\ memCall' = [call EXCEPT !.recent = full_history]
            /\ UNCHANGED summaries
       ELSE IF CacheReusable(user_id, old_messages)
       THEN /\ memCall' = [long EXCEPT !.summary = summaries[user_id].summary,
                                       !.recent = recent_messages,
                                       !.hit = TRUE]
            /\ UNCHANGED summaries
       ELSE \E reply \in RepliesTo(old_messages) :
            LET s == Summarize(old_messages, reply)
                summary == NewSummary(old_messages, s.text)
                made == [long EXCEPT !.summarized = TRUE,
                                     !.llm = s.llm,
                                     !.failed = s.llm /\ reply.kind = "raise"]
            IN
            IF s.raised
            THEN /\ memCall' = [made EXCEPT !.raised = TRUE]
                 /\ UNCHANGED summaries
            ELSE /\ memCall' = [made EXCEPT !.summary = summary.summary,
                                            !.recent = recent_messages]
                 /\ summaries' = [summaries EXCEPT ![user_id] = summary]
    /\ UNCHANGED <<window_size, summarize_threshold>>

\* memory.py:155-157
LoadSummary(user_id, summary) ==
    /\ summaries' = [summaries EXCEPT ![user_id] = summary]
    /\ memCall' = MemCall("load_summary", user_id)
    /\ UNCHANGED <<window_size, summarize_threshold>>

\* memory.py:159-161
ClearCachedSummary(user_id) ==
    /\ summaries' = [summaries EXCEPT ![user_id] = NoSummary]
    /\ memCall' = MemCall("clear_summary", user_id)
    /\ UNCHANGED <<window_size, summarize_threshold>>

\* memory.py:163-165
GetCachedSummary(user_id) == summaries[user_id]

(***************************************************************************)
(* ConversationHistory: the conversations table                            *)
(***************************************************************************)
Roles == {"user", "assistant"}

Row(id, user_id, role, content, timestamp) ==
    [id |-> id, user_id |-> user_id, role |-> role, content |-> content,
     timestamp |-> timestamp]

\* history.py:126-128
ConversationMessage(row) ==
    [role |-> row.role, content |-> row.content, timestamp |-> row.timestamp]

RowsOf(rows, user_id) == { r \in rows : r.user_id = user_id }

\* ORDER BY timestamp ASC.  Both queries that order are answered from the index
\* idx_user_timestamp (user_id, timestamp), history.py:49-52, whose entries for
\* one user are in (timestamp, rowid) order: rows of equal timestamp come out
\* in id order.
Earliest_latest(rows) ==
    CHOOSE r \in rows : \A q \in rows :
        \/ r.timestamp > q.timestamp
        \/ (r.timestamp = q.timestamp /\ r.id >= q.id)
Earliest_lastTie(rows) ==
    CHOOSE r \in rows : \A q \in rows :
        \/ r.timestamp < q.timestamp
        \/ (r.timestamp = q.timestamp /\ r.id >= q.id)
Earliest(rows) ==
    CHOOSE r \in rows : \A q \in rows :
        \/ r.timestamp < q.timestamp
        \/ (r.timestamp = q.timestamp /\ r.id <= q.id)
RECURSIVE OrderByTimestamp(_)
OrderByTimestamp(rows) ==
    IF rows = {} THEN <<>>
    ELSE LET r == Earliest(rows) IN <<r>> \o OrderByTimestamp(rows \ {r})

\* LIMIT k
Limit(seq, k) == SubSeq(seq, 1, Min(Len(seq), k))

SeqRange(seq) == { seq[i] : i \in 1..Len(seq) }

\* history.py:110, 226
CutoffTime == now - conversation_timeout

\* history.py:172
MaxMessages_pairs == max_messages_per_user
MaxMessages == max_messages_per_user * 2

\* history.py:162-187: the table after _prune_history(user_id)
PruneHistory_one(rows, user_id) ==
    LET count == Cardinality(RowsOf(rows, user_id)) IN
    IF count > MaxMessages
    THEN rows \ SeqRange(Limit(OrderByTimestamp(RowsOf(rows, user_id)), 1))
    ELSE rows
PruneHistory(rows, user_id) ==
    LET count == Cardinality(RowsOf(rows, user_id)) IN
    IF count > MaxMessages
    THEN LET excess == count - MaxMessages
         IN rows \ SeqRange(Limit(OrderByTimestamp(RowsOf(rows, user_id)), excess))
    ELSE rows

\* at: the time.time() the operation read
StoreCall(op, user_id) ==
    [op |-> op, user |-> user_id, at |-> now, result |-> <<>>, rowcount |-> 0]

\* history.py:73-95
AddMessage(user_id, role, content) ==
    /\ LET row == Row(next_id, user_id, role, content, now)
       IN conversations' = PruneHistory(conversations \cup {row}, user_id)
    /\ next_id' = next_id + 1
    /\ appended' = [appended EXCEPT ![user_id] = @ + 1]
    /\ storeCall' = StoreCall("add_message", user_id)
    /\ UNCHANGED <<max_messages_per_user, conversation_timeout>>

\* history.py:110-128: the rows get_history selects
SelectHistory_all(user_id) ==
    Limit(OrderByTimestamp({ r \in conversations : r.timestamp > CutoffTime }),
          max_messages_per_user * 2)
SelectHistory_ge(user_id) ==
    Limit(OrderByTimestamp({ r \in RowsOf(conversations, user_id) :
                                r.timestamp >= CutoffTime }),
          max_messages_per_user * 2)
SelectHistory(user_id) ==
    Limit(OrderByTimestamp({ r \in RowsOf(conversations, user_id) :
                                r.timestamp > CutoffTime }),
          max_messages_per_user * 2)

\* history.py:97-128
GetHistory(user_id) ==
    /\ storeCall' = [StoreCall("get_history", user_id) EXCEPT
                        !.result = [i \in 1..Len(SelectHistory(user_id)) |->
                                       ConversationMessage(SelectHistory(user_id)[i])]]
    /\ UNCHANGED <<max_messages_per_user, conversation_timeout, conversations,
                   next_id, appended>>

\* history.py:142-160
ClearHistory_all(user_id) ==
    /\ conversations' = {}
    /\ storeCall' = [StoreCall("clear_history", user_id) EXCEPT
                        !.rowcount = Cardinality(conversations)]
    /\ appended' = [appended EXCEPT ![user_id] = 0]
    /\ UNCHANGED <<max_messages_per_user, conversation_timeout, next_id>>
ClearHistory(user_id) ==
    /\ conversations' = conversations \ RowsOf(conversations, user_id)
    /\ storeCall' = [StoreCall("clear_history", user_id) EXCEPT
                        !.rowcount = Cardinality(RowsOf(conversations, user_id))]
    /\ appended' = [appended EXCEPT ![user_id] = 0]
    /\ UNCHANGED <<max_messages_per_user, conversation_timeout, next_id>>

\* history.py:226-232: the rows cleanup_expired deletes
ExpiredRows_none == {}
ExpiredRows == { r \in conversations : r.timestamp < CutoffTime }

\* history.py:217-239
CleanupExpired ==
    /\ conversations' = conversations \ ExpiredRows
    /\ storeCall' = [StoreCall("cleanup_expired", "") EXCEPT
                        !.rowcount = Cardinality(ExpiredRows)]
    /\ appended' = [u \in Users |-> 0]
    /\ UNCHANGED <<max_messages_per_user, conversation_timeout, next_id>>

\* time passes
Tick ==
    /\ now < MaxTime
    /\ now' = now + 1

(***************************************************************************)
(* ConversationHistory: the conversation_summaries table                   *)
(***************************************************************************)
SummaryRow(user_id, summary, message_count, updated_at) ==
    [user_id |-> user_id, summary |-> summary, message_count |-> message_count,
     updated_at |-> updated_at]

NoRow == SummaryRow("", NoneText, -1, -1)

SummaryRowsOf(user_id) == { r \in conversation_summaries : r.user_id = user_id }

\* history.py:259-266: INSERT OR REPLACE on the primary key user_id
InsertOrReplace_insert(rows, row) == rows \cup {row}
InsertOrReplace_truncate(rows, row) == {row}
InsertOrReplace(rows, row) == { r \in rows : r.user_id # row.user_id } \cup {row}

SumCall(op, user_id) == [op |-> op, user |-> user_id, result |-> NoRow]

\* history.py:245-267
StoreSummary(user_id, summary, message_count) ==
    /\ conversation_summaries' =
           InsertOrReplace(conversation_summaries,
                           SummaryRow(user_id, summary, message_count, now))
    /\ lastStored' = [lastStored EXCEPT
                         ![user_id] = SummaryRow(user_id, summary, message_count, now)]
    /\ sumCall' = SumCall("store_summary", user_id)

\* history.py:269-299: fetchone() gives a row the query selects, None if there is none
GetSummary(user_id) ==
    /\ \/ /\ SummaryRowsOf(user_id) = {}
          /\ sumCall' = SumCall("get_summary", user_id)
       \/ \E row \in SummaryRowsOf(user_id) :
              sumCall' = [SumCall("get_summary", user_id) EXCEPT !.result = row]
    /\ UNCHANGED <<conversation_summaries, lastStored>>

\* history.py:301-315
DeleteSummary_all(rows, user_id) == {}
DeleteSummary(rows, user_id) == { r \in rows : r.user_id # user_id }

ClearSummary(user_id) ==
    /\ conversation_summaries' = DeleteSummary(conversation_summaries, user_id)
    /\ lastStored' = [lastStored EXCEPT ![user_id] = NoRow]
    /\ sumCall' = SumCall("clear_summary", user_id)

(***************************************************************************)
(* The path of a summary through the store and back                        *)
(***************************************************************************)
\* router.py:157-174: _persist_summary
PersistSummary(user_id) ==
    /\ GetCachedSummary(user_id) # NoSummary
    /\ StoreSummary(user_id, GetCachedSummary(user_id).summary,
                    GetCachedSummary(user_id).message_count)

\* memory.py:13-19: the ConversationSummary of a row get_summary returned
SummaryOfRow_nocount(row) == ConversationSummary(row.summary, row.updated_at, 0)
SummaryOfRow(row) == ConversationSummary(row.summary, row.updated_at, row.message_count)

\* memory.py:60-61: a new process starts with an empty cache
Restart ==
    /\ summaries' = [u \in Users |-> NoSummary]
    /\ memCall' = MemCall("init", "")
    /\ UNCHANGED <<window_size, summarize_threshold>>

(***************************************************************************)
(* Configurations and specifications                                       *)
(***************************************************************************)
\* config.py: the defaults
DefaultWindowSize == 4
DefaultSummarizeThreshold == 8
DefaultMaxMessagesPerUser == 50
DefaultConversationTimeout == 86400

\* window_size 0 is what main.py:102 passes when the memory is disabled.
WindowSizes == {0, 1, DefaultWindowSize}
Thresholds == {0, 1, DefaultSummarizeThreshold}
MaxPairs == {1}
Timeouts == {1}

InitMemory(ws, ts) ==
    /\ window_size \in ws
    /\ summarize_threshold \in ts
    /\ summaries = [u \in Users |-> NoSummary]
    /\ memCall = MemCall("init", "")

InitConversations(ps, ts) ==
    /\ max_messages_per_user \in ps
    /\ conversation_timeout \in ts
    /\ conversations = {}
    /\ next_id = 1
    /\ appended = [u \in Users |-> 0]
    /\ storeCall = StoreCall("initialize", "")

InitSummaries ==
    /\ conversation_summaries = {}
    /\ lastStored = [u \in Users |-> NoRow]
    /\ sumCall = SumCall("initialize", "")

\* Summaries a caller may hand to load_summary.
SeedSummaries == { ConversationSummary(ReplyText(<<"S">>), 0, 20) }

(***************************************************************************)
(* backends/fallback.py: FallbackBackend.generate.  A call is suspended    *)
(* while a provider call is awaited; the steps of the model are the        *)
(* stretches between two awaits.  Calls of several tasks interleave at     *)
(* the awaits.  generate_with_search is called nowhere in the program.     *)
(***************************************************************************)
Tasks == {"t1", "t2"}
MaxRetryAttempts == 2
MaxCalls == 4

\* What a provider call ends with, as the except clauses of generate tell
\* them apart (fallback.py:134-151): a result, asyncio.TimeoutError, or
\* another Exception.
Completions == {"text", "timeout", "error"}
Completion(kind, by, attempt) == [kind |-> kind, by |-> by, attempt |-> attempt]
NoError == Completion("none", "none", -1)
RuntimeError == Completion("RuntimeError", "generate", -1)
CancelledError == Completion("CancelledError", "caller", -1)

\* the frame of a generate call; trace: the provider calls that completed in
\* it, entry: _using_fallback when it was entered
Idle ==
    [pc |-> "idle", attempt |-> -1, last_error |-> NoError, trace |-> <<>>,
     outcome |-> "none", value |-> NoError, entry |-> FALSE]

Return(frame, result) ==
    [frame EXCEPT !.pc = "idle", !.outcome = "return", !.value = result]
Raise(frame, e) ==
    [frame EXCEPT !.pc = "idle", !.outcome = "raise", !.value = e]

\* fallback.py:134: for attempt in range(self.config.retry_attempts)
InRange_inclusive(attempt) == attempt <= retry_attempts
InRange(attempt) == attempt < retry_attempts

\* fallback.py:145-146, 150-151: does the failure leave the loop running
MayContinue_swapped(kind) ==
    IF kind = "timeout" THEN fallback_on_error ELSE fallback_on_timeout
MayContinue(kind) ==
    IF kind = "timeout" THEN fallback_on_timeout ELSE fallback_on_error

\* fallback.py:153-170: after the loop
AfterLoop(frame) ==
    IF fallback THEN [frame EXCEPT !.pc = "fallback"]
    ELSE IF frame.last_error # NoError THEN Raise(frame, frame.last_error)
    ELSE Raise(frame, RuntimeError)

\* fallback.py:134-136: the next iteration of the loop, or the end of it
Iterate(frame, attempt) ==
    IF InRange(attempt) THEN [frame EXCEPT !.pc = "primary", !.attempt = attempt]
    ELSE AfterLoop(frame)

\* fallback.py:163-165: the fallback failed
FallbackFailed_retry(frame, e) ==
    IF Len(frame.trace) <= retry_attempts + 1 THEN frame ELSE Raise(frame, e)
FallbackFailed_lastError(frame, e) ==
    IF frame.last_error # NoError THEN Raise(frame, frame.last_error)
    ELSE Raise(frame, e)
FallbackFailed(frame, e) == Raise(frame, e)

\* fallback.py:156: what the switch to the fallback does to _using_fallback
SwitchingFlag_eager == TRUE
SwitchingFlag == using_fallback

\* fallback.py:140: _using_fallback after the primary served the call
PrimaryFlag_keep == using_fallback
PrimaryFlag == FALSE

Served(by) == <<served[2], by>>

\* fallback.py:123-136: the call is entered and runs to its first await
GenerateEnter(t) ==
    /\ gen[t].pc = "idle"
    /\ gen' = [gen EXCEPT ![t] = Iterate([Idle EXCEPT !.entry = using_fallback], 0)]
    /\ using_fallback' = IF gen'[t].pc = "fallback" THEN SwitchingFlag
                         ELSE using_fallback
    /\ started' = started + 1
    /\ UNCHANGED <<retry_attempts, fallback_on_error, fallback_on_timeout,
                   fallback, served>>

\* fallback.py:136-151: the awaited primary call completes
PrimaryCompletes(t, kind) ==
    /\ gen[t].pc = "primary"
    /\ LET c == Completion(kind, "primary", gen[t].attempt)
           frame == [gen[t] EXCEPT !.trace = Append(@, c)]
       IN
       IF kind = "text"
       THEN /\ using_fallback' = PrimaryFlag
            /\ gen' = [gen EXCEPT ![t] = Return(frame, c)]
            /\ served' = Served("primary")
       ELSE /\ gen' = [gen EXCEPT ![t] =
                   LET failed == [frame EXCEPT !.last_error = c] IN
                   IF ~MayContinue(kind) THEN Raise(failed, c)
                   ELSE Iterate(failed, frame.attempt + 1)]
            /\ using_fallback' = IF gen'[t].pc = "fallback" THEN SwitchingFlag
                                 ELSE using_fallback
            /\ served' = served
    /\ UNCHANGED <<retry_attempts, fallback_on_error, fallback_on_timeout,
                   fallback, started>>

\* fallback.py:157-165: the awaited fallback call completes
FallbackCompletes(t, kind) ==
    /\ gen[t].pc = "fallback"
    /\ LET c == Completion(kind, "fallback", 0)
           frame == [gen[t] EXCEPT !.trace = Append(@, c)]
       IN
       IF kind = "text"
       THEN /\ using_fallback' = TRUE
            /\ gen' = [gen EXCEPT ![t] = Return(frame, c)]
            /\ served' = Served("fallback")
       ELSE /\ gen' = [gen EXCEPT ![t] = FallbackFailed(frame, c)]
            /\ UNCHANGED <<using_fallback, served>>
    /\ UNCHANGED <<retry_attempts, fallback_on_error, fallback_on_timeout,
                   fallback, started>>

\* The caller gives the call up while it is suspended: CancelledError is
\* raised at the await; it is a BaseException, which neither except clause
\* of generate catches.
GenerateCancelled(t) ==
    /\ gen[t].pc \in {"primary", "fallback"}
    /\ LET c == Completion("cancelled", gen[t].pc,
                            IF gen[t].pc = "primary" THEN gen[t].attempt ELSE 0)
       IN gen' = [gen EXCEPT ![t] =
                     Raise([gen[t] EXCEPT !.trace = Append(@, c)], CancelledError)]
    /\ UNCHANGED <<retry_attempts, fallback_on_error, fallback_on_timeout,
                   fallback, using_fallback, started, served>>

\* fallback.py:70-108
InitGenerator(retries, on_error, on_timeout, fallbacks) ==
    /\ retry_attempts \in retries
    /\ fallback_on_error \in on_error
    /\ fallback_on_timeout \in on_timeout
    /\ fallback \in fallbacks
    /\ using_fallback = FALSE
    /\ gen = [t \in Tasks |-> Idle]
    /\ started = 0
    /\ served = <<"none", "none">>

DefaultRetryAttempts == 2
DefaultGenerator == InitGenerator({DefaultRetryAttempts}, {TRUE}, {TRUE}, {FALSE})

(***************************************************************************)
(* rate_limiter.py: RateLimiter                                            *)
(***************************************************************************)
\* rate_limiter.py:46, 81, 96: the trailing window, in seconds
Window == 60
DefaultMessagesPerMinute == 10
DefaultGlobalMessagesPerMinute == 30
DefaultBurstAllowance == 3
DefaultCooldownSeconds == 5

\* rate_limiter.py:12-17
UserRateState(times, last, burst) ==
    [message_times |-> times, last_response_time |-> last, burst_count |-> burst]
NewUserRateState == UserRateState(<<>>, 0, 0)

\* rate_limiter.py:47-48: [t for t in times if t > cutoff]
RECURSIVE Newer_ge(_, _)
Newer_ge(times, cutoff) ==
    IF times = <<>> THEN <<>>
    ELSE (IF Head(times) >= cutoff THEN <<Head(times)>> ELSE <<>>)
             \o Newer_ge(Tail(times), cutoff)
RECURSIVE Newer(_, _)
Newer(times, cutoff) ==
    IF times = <<>> THEN <<>>
    ELSE (IF Head(times) > cutoff THEN <<Head(times)>> ELSE <<>>)
             \o Newer(Tail(times), cutoff)

\* the reason of a decision: None, or a text
Reason(text, remaining) == [text |-> text, remaining |-> remaining]
NoReason == Reason("None", 0)
CooldownReason(remaining) == Reason("Cooldown: wait", remaining)
PerUserReason == Reason("Rate limit exceeded (per-user)", 0)
GlobalReason == Reason("Rate limit exceeded (global)", 0)

\* rate_limiter.py:38-39
Bypasses_none(user_id) == FALSE
Bypasses(user_id) == user_id \in vip_nodes

\* rate_limiter.py:66
AtGlobalLimit_gt(times) == Len(times) > global_messages_per_minute
AtGlobalLimit(times) == Len(times) >= global_messages_per_minute

\* rate_limiter.py:51-55
InCooldown_le(state) ==
    /\ state.last_response_time > 0
    /\ now - state.last_response_time <= cooldown_seconds
InCooldown(state) ==
    /\ state.last_response_time > 0
    /\ now - state.last_response_time < cooldown_seconds

\* rate_limiter.py:58: the per-user limit is reached
AtLimit_gt(state) == Len(state.message_times) > messages_per_minute
AtLimit(state) == Len(state.message_times) >= messages_per_minute

\* rate_limiter.py:60: the burst allowance is used up
BurstUsed_gt(state) == state.burst_count > burst_allowance
BurstUsed(state) == state.burst_count >= burst_allowance

\* rate_limiter.py:70: the reason returned with an allowed decision
AllowedReason_text == Reason("Allowed", 0)
AllowedReason == NoReason

\* nth: the number of an is_allowed call among those for the user
RateCall(op, user_id) ==
    [op |-> op, user |-> user_id, at |-> now, nth |-> 0, allowed |-> FALSE,
     reason |-> NoReason]

\* How the caller has used the limiter for a user: checks, the is_allowed
\* calls so far; first, the time of the first one; pending, the last
\* is_allowed admitted a message that is not recorded yet; paired, every
\* admitted message was recorded once, right after its is_allowed, and
\* nothing else was recorded; recorded, the time of the last record_message
\* (0: none).
NoTurns ==
    [checks |-> 0, first |-> 0, pending |-> FALSE, paired |-> TRUE, recorded |-> 0]
Checked(turn, allowed) ==
    [checks |-> turn.checks + 1,
     first |-> IF turn.checks = 0 THEN now ELSE turn.first,
     pending |-> allowed,
     paired |-> turn.paired /\ ~turn.pending,
     recorded |-> turn.recorded]
Recorded(turn) ==
    [turn EXCEPT !.pending = FALSE, !.paired = turn.paired /\ turn.pending,
                 !.recorded = now]

\* rate_limiter.py:29-70: decision is the returned pair, state the user's
\* state and times the global list as the call leaves them
Decide(user_id) ==
    LET cutoff == now - Window
        cleaned == [user_states[user_id] EXCEPT !.message_times = Newer(@, cutoff)]
        times == Newer(global_times, cutoff)
    IN
    IF Bypasses(user_id)
    THEN [allowed |-> TRUE, reason |-> NoReason,
          state |-> user_states[user_id], times |-> global_times]
    ELSE IF InCooldown(cleaned)
    THEN [allowed |-> FALSE,
          reason |-> CooldownReason(cooldown_seconds
                                        - (now - cleaned.last_response_time)),
          state |-> cleaned, times |-> times]
    ELSE IF AtLimit(cleaned) /\ BurstUsed(cleaned)
    THEN [allowed |-> FALSE, reason |-> PerUserReason,
          state |-> cleaned, times |-> times]
    ELSE LET counted == IF AtLimit(cleaned)
                        THEN [cleaned EXCEPT !.burst_count = @ + 1]
                        ELSE [cleaned EXCEPT !.burst_count = 0]
         IN IF AtGlobalLimit(times)
            THEN [allowed |-> FALSE, reason |-> GlobalReason,
                  state |-> counted, times |-> times]
            ELSE [allowed |-> TRUE, reason |-> AllowedReason,
                  state |-> counted, times |-> times]

IsAllowed(user_id) ==
    LET d == Decide(user_id) IN
    /\ user_states' = [user_states EXCEPT ![user_id] = d.state]
    /\ global_times' = d.times
    /\ rateCall' = [RateCall("is_allowed", user_id) EXCEPT
                       !.nth = turns[user_id].checks + 1,
                       !.allowed = d.allowed, !.reason = d.reason]
    /\ turns' = [turns EXCEPT ![user_id] = Checked(@, d.allowed)]
    /\ UNCHANGED <<messages_per_minute, global_messages_per_minute,
                   cooldown_seconds, burst_allowance, vip_nodes>>

\* rate_limiter.py:72-78
RecordMessage(user_id) ==
    /\ user_states' = [user_states EXCEPT ![user_id] =
           [@ EXCEPT !.message_times = Append(@, now),
                     !.last_response_time = now]]
    /\ global_times' = Append(global_times, now)
    /\ rateCall' = RateCall("record_message", user_id)
    /\ turns' = [turns EXCEPT ![user_id] = Recorded(@)]
    /\ UNCHANGED <<messages_per_minute, global_messages_per_minute,
                   cooldown_seconds, burst_allowance, vip_nodes>>

\* rate_limiter.py:108-111
ResetUser(user_id) ==
    /\ user_states' = [user_states EXCEPT ![user_id] = NewUserRateState]
    /\ rateCall' = RateCall("reset_user", user_id)
    /\ turns' = [turns EXCEPT ![user_id] = NoTurns]
    /\ UNCHANGED <<messages_per_minute, global_messages_per_minute,
                   cooldown_seconds, burst_allowance, vip_nodes, global_times>>

\* rate_limiter.py:113-116
ResetAll ==
    /\ user_states' = [u \in Users |-> NewUserRateState]
    /\ global_times' = <<>>
    /\ rateCall' = RateCall("reset_all", "")
    /\ turns' = [u \in Users |-> NoTurns]
    /\ UNCHANGED <<messages_per_minute, global_messages_per_minute,
                   cooldown_seconds, burst_allowance, vip_nodes>>

\* rate_limiter.py:23-27
RateConfig(per_minute, global, cooldown, burst) ==
    [messages_per_minute |-> per_minute, global_messages_per_minute |-> global,
     cooldown_seconds |-> cooldown, burst_allowance |-> burst]
InitRateLimiter(configs, vips) ==
    /\ \E c \in configs :
           /\ messages_per_minute = c.messages_per_minute
           /\ global_messages_per_minute = c.global_messages_per_minute
           /\ cooldown_seconds = c.cooldown_seconds
           /\ burst_allowance = c.burst_allowance
    /\ vip_nodes \in vips
    /\ user_states = [u \in Users |-> NewUserRateState]
    /\ global_times = <<>>
    /\ rateCall = RateCall("init", "")
    /\ turns = [u \in Users |-> NoTurns]

(***************************************************************************)
(* history.py at the grain of its awaits.  Every method takes the one      *)
(* asyncio.Lock of the store (history.py:33) around its statements; a call *)
(* is suspended at each awaited statement, and calls of other tasks run    *)
(* meanwhile.  All statements go through the one connection, so a change   *)
(* is seen by every later statement whether or not it is committed yet.   *)
(***************************************************************************)
\* the messages appended are user and assistant messages in turn
StreamRole(k) == IF k % 2 = 1 THEN "user" ELSE "assistant"

StoreTasks == {"s1", "s2"}

StoreOps ==
    {"add_message", "get_history", "clear_history", "cleanup_expired", "store_summary"}

\* the two tables and the AUTOINCREMENT sequence of conversations.id
Database(rows, sums, seq) ==
    [conversations |-> rows, conversation_summaries |-> sums, next_id |-> seq]

\* pc: the awaited statement; at: the clock when the lock was taken; cutoff:
\* computed before the lock is taken (history.py:110, 226); count: what
\* SELECT COUNT(*) returned; before: the database when the lock was taken
NoCall ==
    [op |-> "none", user |-> "", pc |-> "idle", at |-> 0, cutoff |-> 0, count |-> 0,
     before |-> Database({}, {}, 1), result |-> <<>>, rowcount |-> 0]

FirstStatement(op) ==
    CASE op = "add_message" -> "insert"
      [] op = "get_history" -> "select"
      [] op = "clear_history" -> "clear"
      [] op = "cleanup_expired" -> "sweep"
      [] op = "store_summary" -> "replace"

Statements == {"insert", "count", "delete", "select", "clear", "sweep", "replace"}
Commits == {"insert_commit", "delete_commit", "clear_commit", "sweep_commit",
            "replace_commit"}

\* asyncio.Lock.acquire: the lock is taken at once only if it is free and
\* nobody waits for it
MustWait_never(user_id) == FALSE
MustWait_sameUser(user_id) == lock # "free" /\ store[lock].user = user_id
MustWait(user_id) == lock # "free" \/ waiters # <<>>

\* async with self._lock: entered
Acquired(call, db) ==
    [call EXCEPT !.pc = FirstStatement(call.op), !.at = now, !.before = db]

\* the summary a task stores
TaskSummaryCount == 3
TaskSummary == ReplyText(<<"A">>)

\* a method is called and runs to its first await
Enter(t, op, user_id) ==
    /\ store[t].pc = "idle"
    /\ LET call == [NoCall EXCEPT !.op = op, !.user = user_id,
                                  !.cutoff = now - conversation_timeout]
       IN IF MustWait(user_id)
          THEN /\ store' = [store EXCEPT ![t] = [call EXCEPT !.pc = "wait"]]
               /\ waiters' = Append(waiters, t)
               /\ lock' = lock
          ELSE /\ store' = [store EXCEPT ![t] =
                      Acquired(call, Database(conversations, conversation_summaries,
                                              next_id))]
               /\ lock' = t
               /\ waiters' = waiters
    /\ UNCHANGED <<conversations, next_id, conversation_summaries, committed, faults,
                   storeCall>>

\* the async with block is left, by its end or by an exception: the lock is
\* released and the first waiter, if any, takes it
Leave(t, record, db) ==
    /\ storeCall' = record
    /\ IF waiters = <<>>
       THEN /\ lock' = "free"
            /\ waiters' = waiters
            /\ store' = [store EXCEPT ![t] = NoCall]
       ELSE /\ lock' = Head(waiters)
            /\ waiters' = Tail(waiters)
            /\ store' = [store EXCEPT ![t] = NoCall,
                                      ![Head(waiters)] = Acquired(@, db)]

Goes(t, call) ==
    /\ store' = [store EXCEPT ![t] = call]
    /\ UNCHANGED <<lock, waiters, storeCall>>

\* the record of a call that ended: what it returned, nothing if it raised
Returns(call) ==
    [StoreCall(call.op, call.user) EXCEPT !.at = call.at, !.result = call.result,
                                          !.rowcount = call.rowcount]
Raises(call) == [StoreCall(call.op, call.user) EXCEPT !.at = call.at]

Current == Database(conversations, conversation_summaries, next_id)

\* the database becomes db
Becomes(db) ==
    /\ conversations' = db.conversations
    /\ conversation_summaries' = db.conversation_summaries
    /\ next_id' = db.next_id

\* history.py:85-91: INSERT INTO conversations, with the time.time() read when
\* the statement was issued
ExecuteInsert(t) ==
    LET call == store[t] IN
    /\ call.pc = "insert"
    /\ Becomes(Database(conversations \cup {Row(next_id, call.user, StreamRole(next_id),
                                                 next_id, call.at)},
                        conversation_summaries, next_id + 1))
    /\ Goes(t, [call EXCEPT !.pc = "insert_commit"])
    /\ UNCHANGED <<committed, faults>>

\* history.py:165-173: SELECT COUNT(*), fetchone and the comparison
NeedsPrune(count) == count > MaxMessages

ExecuteCount(t) ==
    LET call == store[t]
        count == Cardinality(RowsOf(conversations, call.user)) IN
    /\ call.pc = "count"
    /\ IF NeedsPrune(count)
       THEN Goes(t, [call EXCEPT !.pc = "delete", !.count = count])
       ELSE Leave(t, Returns([call EXCEPT !.count = count]), Current)
    /\ UNCHANGED <<conversations, conversation_summaries, next_id, committed, faults>>

\* history.py:174-186: DELETE the oldest count - max rows of the user
ExecuteDelete(t) ==
    LET call == store[t]
        excess == call.count - MaxMessages IN
    /\ call.pc = "delete"
    /\ Becomes(Database(conversations \
                          SeqRange(Limit(OrderByTimestamp(RowsOf(conversations,
                                                                 call.user)), excess)),
                        conversation_summaries, next_id))
    /\ Goes(t, [call EXCEPT !.pc = "delete_commit"])
    /\ UNCHANGED <<committed, faults>>

\* history.py:113-128: SELECT ... WHERE timestamp > cutoff, and fetchall
ExecuteSelect(t) ==
    LET call == store[t]
        rows == Limit(OrderByTimestamp({ r \in RowsOf(conversations, call.user) :
                                            r.timestamp > call.cutoff }),
                      max_messages_per_user * 2) IN
    /\ call.pc = "select"
    /\ Leave(t, Returns([call EXCEPT !.result =
                 [i \in 1..Len(rows) |-> ConversationMessage(rows[i])]]), Current)
    /\ UNCHANGED <<conversations, conversation_summaries, next_id, committed, faults>>

\* history.py:155-158: DELETE FROM conversations WHERE user_id = ?
ExecuteClear(t) ==
    LET call == store[t] IN
    /\ call.pc = "clear"
    /\ Becomes(Database(conversations \ RowsOf(conversations, call.user),
                        conversation_summaries, next_id))
    /\ Goes(t, [call EXCEPT !.pc = "clear_commit",
                            !.rowcount = Cardinality(RowsOf(conversations, call.user))])
    /\ UNCHANGED <<committed, faults>>

\* history.py:229-232: DELETE FROM conversations WHERE timestamp < cutoff
ExecuteSweep(t) ==
    LET call == store[t]
        expired == { r \in conversations : r.timestamp < call.cutoff } IN
    /\ call.pc = "sweep"
    /\ Becomes(Database(conversations \ expired, conversation_summaries, next_id))
    /\ Goes(t, [call EXCEPT !.pc = "sweep_commit", !.rowcount = Cardinality(expired)])
    /\ UNCHANGED <<committed, faults>>

\* history.py:259-266: INSERT OR REPLACE INTO conversation_summaries
ExecuteReplace(t) ==
    LET call == store[t] IN
    /\ call.pc = "replace"
    /\ Becomes(Database(conversations,
                        InsertOrReplace(conversation_summaries,
                                        SummaryRow(call.user, TaskSummary,
                                                   TaskSummaryCount, call.at)),
                        next_id))
    /\ Goes(t, [call EXCEPT !.pc = "replace_commit"])
    /\ UNCHANGED <<committed, faults>>

\* await self._db.commit().  After the INSERT's commit add_message goes on to
\* _prune_history (history.py:92-95); the other commits end their method.
Commit(t) ==
    LET call == store[t] IN
    /\ call.pc \in Commits
    /\ committed' = Current
    /\ IF call.pc = "insert_commit"
       THEN Goes(t, [call EXCEPT !.pc = "count"])
       ELSE Leave(t, Returns(call), Current)
    /\ UNCHANGED <<conversations, conversation_summaries, next_id, faults>>

\* A statement raises a storage error: it changes nothing, and the exception
\* leaves the async with block.  No method catches it or rolls back.
ExecuteFails(t) ==
    LET call == store[t] IN
    /\ call.pc \in Statements
    /\ faults' = faults + 1
    /\ Leave(t, Raises(call), Current)
    /\ UNCHANGED <<conversations, conversation_summaries, next_id, committed>>

\* COMMIT raises: SQLite either leaves the transaction open (its changes stay
\* visible on the connection and the next COMMIT commits them) or has rolled
\* it back
CommitFails(t, rolled_back) ==
    LET call == store[t]
        db == IF rolled_back THEN committed ELSE Current IN
    /\ call.pc \in Commits
    /\ faults' = faults + 1
    /\ Becomes(db)
    /\ Leave(t, Raises(call), db)
    /\ UNCHANGED committed

InitTasks ==
    /\ lock = "free"
    /\ waiters = <<>>
    /\ store = [t \in StoreTasks |-> NoCall]
    /\ committed = Database({}, {}, 1)
    /\ faults = 0

(***************************************************************************)
(* memory.py at the grain of its awaits: get_context_messages is suspended *)
(* while the completion call of _summarize is in flight (memory.py:140),   *)
(* between the check of the cache and the assignment to it.  memory.py     *)
(* has no lock.                                                            *)
(***************************************************************************)
ContextTasks == {"c1", "c2"}

\* seen: the cache entry of the user when the call checked it
NoContext == [pc |-> "idle", user |-> "", history |-> <<>>, seen |-> NoSummary]

\* memory.py:63-108: the call runs to its return or to the completion call
ContextEnter(t, user_id, full_history) ==
    LET call == [MemCall("get_context_messages", user_id) EXCEPT
                    !.history = full_history]
        old_messages == OldMessages(full_history)
    IN
    /\ ctx[t].pc = "idle"
    /\ IF IsShort(full_history)
       THEN /\ memCall' = [call EXCEPT !.recent = full_history]
            /\ ctx' = ctx
       ELSE IF CacheReusable(user_id, old_messages)
       THEN /\ memCall' = [call EXCEPT !.old = old_messages,
                                       !.summary = summaries[user_id].summary,
                                       !.recent = RecentMessages(full_history),
                                       !.hit = TRUE]
            /\ ctx' = ctx
       ELSE /\ ctx' = [ctx EXCEPT ![t] = [pc |-> "summarize", user |-> user_id,
                                          history |-> full_history,
                                          seen |-> summaries[user_id]]]
            /\ memCall' = memCall
    /\ UNCHANGED <<window_size, summarize_threshold, summaries>>

\* memory.py:140-117: the completion call ends, _summarize returns its text
\* and the new summary is assigned to the cache
ContextResume(t, reply) ==
    LET call == ctx[t]
        old_messages == OldMessages(call.history)
        s == Summarize(old_messages, reply)
        summary == NewSummary(old_messages, s.text)
    IN
    /\ call.pc = "summarize"
    /\ summaries' = [summaries EXCEPT ![call.user] = summary]
    /\ memCall' = [MemCall("get_context_messages", call.user) EXCEPT
                       !.history = call.history,
                       !.old = old_messages,
                       !.summary = summary.summary,
                       !.recent = RecentMessages(call.history),
                       !.summarized = TRUE,
                       !.llm = s.llm,
                       !.failed = s.llm /\ reply.kind = "raise"]
    /\ ctx' = [ctx EXCEPT ![t] = NoContext]
    /\ UNCHANGED <<window_size, summarize_threshold>>

InitContext == ctx = [t \in ContextTasks |-> NoContext]

(***************************************************************************)
(* main.py and router.py: one incoming message handled by _on_message,     *)
(* step by step through generate_llm_response                              *)
(***************************************************************************)
\* router.py:147: the reply stored when generate raised
ApologyText == 0
\* openai_backend.py:100: the reply for a completion without content
EmptyText == -1

\* history: what get_history_for_llm returned; summary and sent: the summary
\* and the messages the backend put into the completion call; response: the
\* reply text; raised: generate raised an exception
NoTurn ==
    [pc |-> "idle", user |-> "", history |-> <<>>, summary |-> NoneText,
     sent |-> <<>>, response |-> EmptyText, raised |-> FALSE]

\* covered: the messages given to the summarizer call that made the cached
\* summary; before_reset: the user has reset the conversation since
NoOrigin == [covered |-> <<>>, before_reset |-> FALSE]

\* openai_backend.py:71: if summary
Truthy_any(text) == text # NoneText
Truthy(text) == text # NoneText /\ ~(text.kind = "reply" /\ text.chars = <<>>)

\* history.py:139-140
HistoryForLLM(history) ==
    [i \in 1..Len(history) |-> [role |-> history[i].role, content |-> history[i].content]]

\* main.py:139-152: should_respond accepted the message and route made it
\* an LLM query; generate_llm_response is called
TurnReceive(user_id) ==
    /\ handling.pc = "idle"
    /\ handling' = [NoTurn EXCEPT !.pc = "append_user", !.user = user_id]
    /\ UNCHANGED origin

\* router.py:127
TurnAppendUser ==
    /\ handling.pc = "append_user"
    /\ AddMessage(handling.user, "user", next_id)
    /\ handling' = [handling EXCEPT !.pc = "history"]
    /\ UNCHANGED origin

\* router.py:130
TurnHistory ==
    /\ handling.pc = "history"
    /\ GetHistory(handling.user)
    /\ handling' = [handling EXCEPT !.pc = "generate",
                            !.history = HistoryForLLM(storeCall'.result)]
    /\ UNCHANGED origin

\* router.py:138-147 with openai_backend.py:65-100: the backend asks the
\* memory for the context and makes the completion call, which returns a
\* text, returns no content, or raises
GenerateOutcomes == {"text", "empty", "raise"}

Response_raise(outcome) ==
    CASE outcome = "text" -> next_id
      [] outcome = "empty" -> EmptyText
      [] outcome = "raise" -> EmptyText
Response(outcome) ==
    CASE outcome = "text" -> next_id
      [] outcome = "empty" -> EmptyText
      [] outcome = "raise" -> ApologyText

TurnGenerate(outcome) ==
    /\ handling.pc = "generate"
    /\ GetContextMessages(handling.user, handling.history)
    /\ handling' = [handling EXCEPT
                       !.pc = "append_assistant",
                       !.summary = memCall'.summary,
                       !.sent = IF Truthy(memCall'.summary) THEN memCall'.recent
                                ELSE handling.history,
                       !.response = Response(outcome),
                       !.raised = (outcome = "raise")]
    /\ origin' = IF memCall'.summarized
                 THEN [origin EXCEPT ![handling.user] =
                          [covered |-> memCall'.old, before_reset |-> FALSE]]
                 ELSE origin

\* router.py:150
TurnAppendAssistant ==
    /\ handling.pc = "append_assistant"
    /\ AddMessage(handling.user, "assistant", handling.response)
    /\ handling' = [handling EXCEPT !.pc = "persist"]
    /\ UNCHANGED origin

\* router.py:153-174: _persist_summary, and the reply is returned
TurnPersist_skip ==
    /\ handling.pc = "persist"
    /\ UNCHANGED <<conversation_summaries, lastStored, sumCall>>
    /\ handling' = [handling EXCEPT !.pc = "idle"]
    /\ UNCHANGED origin
TurnPersist ==
    /\ handling.pc = "persist"
    /\ IF GetCachedSummary(handling.user) # NoSummary
       THEN StoreSummary(handling.user, GetCachedSummary(handling.user).summary,
                         GetCachedSummary(handling.user).message_count)
       ELSE UNCHANGED <<conversation_summaries, lastStored, sumCall>>
    /\ handling' = [handling EXCEPT !.pc = "idle"]
    /\ UNCHANGED origin

\* commands/reset.py:13-23: the message is the command !reset; the history
\* and the stored summary of the sender are deleted
TurnReset(user_id) ==
    /\ handling.pc = "idle"
    /\ ClearHistory(user_id)
    /\ ClearSummary(user_id)
    /\ origin' = [origin EXCEPT ![user_id].before_reset =
                                    GetCachedSummary(user_id) # NoSummary]
    /\ UNCHANGED handling

\* main.py:86-133: the process starts again; _init_components opens the
\* database that is there and makes a new backend with an empty memory
TurnRestart ==
    /\ handling.pc = "idle"
    /\ Restart
    /\ origin' = [u \in Users |-> NoOrigin]
    /\ UNCHANGED handling

InitTurn == handling = NoTurn /\ origin = [u \in Users |-> NoOrigin]

InitConc == InitTasks /\ InitContext /\ InitTurn

DefaultRateLimiter ==
    InitRateLimiter({RateConfig(DefaultMessagesPerMinute, DefaultGlobalMessagesPerMinute,
                                DefaultCooldownSeconds, DefaultBurstAllowance)}, {{}})

InitRest == DefaultGenerator /\ DefaultRateLimiter /\ InitConc

InitConv ==
    /\ now = 0
    /\ InitMemory({DefaultWindowSize}, {DefaultSummarizeThreshold})
    /\ InitConversations({DefaultMaxMessagesPerUser}, {DefaultConversationTimeout})
    /\ InitSummaries

\* ---- the memory alone, under every configuration
InitMem ==
    /\ now = 0
    /\ InitRest
    /\ InitMemory(WindowSizes, Thresholds)
    /\ InitConversations({DefaultMaxMessagesPerUser}, {DefaultConversationTimeout})
    /\ InitSummaries

\* The first user's conversation grows long, the second one's stays short.
HistLengths(u, longest) == IF u = "u1" THEN 0..longest ELSE 0..MaxHistOther

MemGetContext ==
    \E u \in Users : \E n \in HistLengths(u, MaxHist) : GetContextMessages(u, History(n))
MemLoad == \E u \in Users, s \in SeedSummaries : LoadSummary(u, s)
MemClear == \E u \in Users : ClearCachedSummary(u)

NextMem ==
    /\ MemGetContext \/ MemLoad \/ MemClear
    /\ UNCHANGED <<now, storeVars, sumVars, restVars>>

SpecMem == InitMem /\ [][NextMem]_vars

\* ---- the memory with a window of one pair and a conversation long enough for
\* ---- a summary of 20 messages to go stale.  The long conversation is the
\* ---- first user's; the other user's cache entry is loaded and cleared.
InitMemLong ==
    /\ now = 0
    /\ InitRest
    /\ InitMemory({1}, Thresholds)
    /\ InitConversations({DefaultMaxMessagesPerUser}, {DefaultConversationTimeout})
    /\ InitSummaries

MemLongGetContext ==
    \E n \in 0..MaxLongHist : GetContextMessages("u1", History(n))

NextMemLong ==
    /\ MemLongGetContext \/ MemLoad \/ MemClear
    /\ UNCHANGED <<now, storeVars, sumVars, restVars>>

SpecMemLong == InitMemLong /\ [][NextMemLong]_vars

\* ---- a summary on its way through the store and back into the cache of a
\* ---- new process, under the default configuration.  The conversation is
\* ---- the first user's.
MinPersistHist == 17
MaxPersistHist == 18

InitPersist ==
    /\ now = 0
    /\ InitRest
    /\ InitMemory({DefaultWindowSize}, {DefaultSummarizeThreshold})
    /\ InitConversations({DefaultMaxMessagesPerUser}, {DefaultConversationTimeout})
    /\ InitSummaries

PersistGetContext ==
    /\ \E n \in MinPersistHist..MaxPersistHist : GetContextMessages("u1", History(n))
    /\ UNCHANGED <<now, storeVars, sumVars, restVars>>
PersistStore ==
    /\ \E u \in Users : PersistSummary(u)
    /\ UNCHANGED <<now, storeVars, memVars, restVars>>
PersistRead ==
    /\ \E u \in Users : GetSummary(u)
    /\ UNCHANGED <<now, storeVars, memVars, restVars>>
PersistClear ==
    /\ \E u \in Users : ClearSummary(u)
    /\ UNCHANGED <<now, storeVars, memVars, restVars>>
PersistRestart ==
    /\ Restart
    /\ UNCHANGED <<now, storeVars, sumVars, restVars>>
\* load_summary for the user and with the summary of the row get_summary just
\* returned
PersistLoad ==
    /\ sumCall.op = "get_summary"
    /\ sumCall.result # NoRow
    /\ LoadSummary(sumCall.user, SummaryOfRow(sumCall.result))
    /\ UNCHANGED <<now, storeVars, sumVars, restVars>>
PersistTick ==
    /\ Tick
    /\ UNCHANGED <<memVars, storeVars, sumVars, restVars>>

NextPersist ==
    \/ PersistGetContext \/ PersistStore \/ PersistRead \/ PersistClear
    \/ PersistRestart \/ PersistLoad \/ PersistTick

SpecPersist == InitPersist /\ [][NextPersist]_vars

\* ---- the conversations table
InitStore ==
    /\ now = 0
    /\ InitRest
    /\ InitMemory({DefaultWindowSize}, {DefaultSummarizeThreshold})
    /\ InitConversations(MaxPairs, Timeouts)
    /\ InitSummaries

\* The messages appended are a fixed stream, user and assistant in turn, each
\* with a content of its own so that it is recognised when read back; the
\* stream goes to the two users in any order, most of it to the first.
StoreAdd ==
    /\ next_id <= MaxAppends
    /\ \E u \in Users :
           /\ u # "u1" => appended[u] < MaxAppendsOther
           /\ AddMessage(u, StreamRole(next_id), next_id)
    /\ UNCHANGED <<now, memVars, sumVars, restVars>>
StoreGet ==
    /\ \E u \in Users : GetHistory(u)
    /\ UNCHANGED <<now, memVars, sumVars, restVars>>
StoreClear ==
    /\ \E u \in Users : ClearHistory(u)
    /\ UNCHANGED <<now, memVars, sumVars, restVars>>
StoreCleanup ==
    /\ CleanupExpired
    /\ UNCHANGED <<now, memVars, sumVars, restVars>>
StoreTick ==
    /\ Tick
    /\ UNCHANGED <<memVars, storeVars, sumVars, restVars>>

NextStore == StoreAdd \/ StoreGet \/ StoreClear \/ StoreCleanup \/ StoreTick

SpecStore == InitStore /\ [][NextStore]_vars

\* ---- the conversation_summaries table
SummaryTexts == { ReplyText(<<"A">>), FallbackText(3) }
SummaryCounts == {3, 10}

InitSum ==
    /\ now = 0
    /\ InitRest
    /\ InitMemory({DefaultWindowSize}, {DefaultSummarizeThreshold})
    /\ InitConversations({DefaultMaxMessagesPerUser}, {DefaultConversationTimeout})
    /\ InitSummaries

SumStore ==
    /\ \E u \in Users, text \in SummaryTexts, count \in SummaryCounts :
           StoreSummary(u, text, count)
    /\ UNCHANGED <<now, memVars, storeVars, restVars>>
SumGet ==
    /\ \E u \in Users : GetSummary(u)
    /\ UNCHANGED <<now, memVars, storeVars, restVars>>
SumClear ==
    /\ \E u \in Users : ClearSummary(u)
    /\ UNCHANGED <<now, memVars, storeVars, restVars>>
SumTick ==
    /\ Tick
    /\ UNCHANGED <<memVars, storeVars, sumVars, restVars>>

NextSum == SumStore \/ SumGet \/ SumClear \/ SumTick

SpecSum == InitSum /\ [][NextSum]_vars

\* ---- the generator, under every configuration
InitGen ==
    /\ InitConv
    /\ DefaultRateLimiter
    /\ InitConc
    /\ InitGenerator(0..MaxRetryAttempts, BOOLEAN, BOOLEAN, BOOLEAN)

GenEnter ==
    /\ started < MaxCalls
    /\ \E t \in Tasks : GenerateEnter(t)
    /\ UNCHANGED <<now, convVars, rateVars, concVars>>
GenPrimary ==
    /\ \E t \in Tasks, kind \in Completions : PrimaryCompletes(t, kind)
    /\ UNCHANGED <<now, convVars, rateVars, concVars>>
GenFallback ==
    /\ \E t \in Tasks, kind \in Completions : FallbackCompletes(t, kind)
    /\ UNCHANGED <<now, convVars, rateVars, concVars>>
GenCancel ==
    /\ \E t \in Tasks : GenerateCancelled(t)
    /\ UNCHANGED <<now, convVars, rateVars, concVars>>

NextGen == GenEnter \/ GenPrimary \/ GenFallback \/ GenCancel

SpecGen == InitGen /\ [][NextGen]_vars

\* ---- the rate limiter.  The clock starts positive, as time.time() is,
\* and advances by half a window until the first entries have left the
\* window.  Under the default limits (without
\* cooldown) the caller records every message it was allowed, and most
\* messages are the first user's; under the small limits, where the global
\* limit and the cooldown are reached, it calls in any order and resets.
MaxChecks == 15
MaxRecords == 14
MaxChecksOther == 1
MaxSmallChecks == 2
MaxSmallRecords == 3
HalfWindow == Window \div 2
DefaultLimits ==
    RateConfig(DefaultMessagesPerMinute, DefaultGlobalMessagesPerMinute, 0,
               DefaultBurstAllowance)
SmallLimits == RateConfig(1, 3, HalfWindow, 1)
RateConfigs == { DefaultLimits, SmallLimits }
UnderDefaultLimits == messages_per_minute = DefaultMessagesPerMinute

InitRate ==
    /\ now = HalfWindow
    /\ InitMemory({DefaultWindowSize}, {DefaultSummarizeThreshold})
    /\ InitConversations({DefaultMaxMessagesPerUser}, {DefaultConversationTimeout})
    /\ InitSummaries
    /\ DefaultGenerator
    /\ InitConc
    /\ InitRateLimiter(RateConfigs, {{}, {"u2"}})

RateCheck ==
    /\ \E u \in Users :
           /\ IF UnderDefaultLimits
              THEN /\ turns[u].checks < (IF u = "u1" THEN MaxChecks ELSE MaxChecksOther)
                   /\ ~turns[u].pending
              ELSE turns[u].checks < MaxSmallChecks
           /\ IsAllowed(u)
    /\ UNCHANGED <<now, convVars, genVars, concVars>>
RateRecord ==
    /\ \E u \in Users :
           /\ IF UnderDefaultLimits
              THEN turns[u].pending /\ Len(global_times) < MaxRecords
              ELSE Len(global_times) < MaxSmallRecords
           /\ RecordMessage(u)
    /\ UNCHANGED <<now, convVars, genVars, concVars>>
RateResetUser ==
    /\ ~UnderDefaultLimits
    /\ \E u \in Users : ResetUser(u)
    /\ UNCHANGED <<now, convVars, genVars, concVars>>
RateResetAll ==
    /\ ~UnderDefaultLimits
    /\ ResetAll
    /\ UNCHANGED <<now, convVars, genVars, concVars>>
RateTick ==
    /\ now < Window + HalfWindow
    /\ now' = now + HalfWindow
    /\ UNCHANGED <<convVars, genVars, rateVars, concVars>>

NextRate == RateCheck \/ RateRecord \/ RateResetUser \/ RateResetAll \/ RateTick

SpecRate == InitRate /\ [][NextRate]_vars

(***************************************************************************)
(* Claims about get_context_messages                                       *)
(***************************************************************************)
IsGetContext(call) == call.op = "get_context_messages"
IsLong(call) == Len(call.history) > window_size * 2

\* C1, as stated: for every history longer than window_size*2, recent has
\* exactly window_size*2 messages and old followed by recent is the history.
C1_SplitExact ==
    (IsGetContext(memCall) /\ IsLong(memCall)) =>
        /\ Len(memCall.recent) = window_size * 2
        /\ memCall.old \o memCall.recent = memCall.history

\* C1, amended: for every history longer than window_size*2, old followed by
\* recent is the history (nothing lost, duplicated or reordered); recent has
\* exactly window_size*2 messages when window_size >= 1, and with
\* window_size = 0 recent is the whole history and old is empty.
C1_Split ==
    (IsGetContext(memCall) /\ IsLong(memCall)) =>
        /\ ~memCall.raised
        /\ memCall.old \o memCall.recent = memCall.history
        /\ window_size >= 1 => Len(memCall.recent) = window_size * 2
        /\ window_size = 0 => memCall.recent = memCall.history /\ memCall.old = <<>>

C1_Witness ==
    /\ IsGetContext(memCall) /\ IsLong(memCall)
    /\ window_size = DefaultWindowSize
    /\ Len(memCall.old) = 2
    /\ Len(memCall.recent) = 8

\* C2: for a history of at most window_size*2 messages get_context returns
\* (None, history) with the history unchanged, calls no summarization and
\* leaves the cache as it was.
C2_ShortUntouched ==
    [][ (memCall' # memCall /\ IsGetContext(memCall')
            /\ Len(memCall'.history) <= window_size * 2) =>
        /\ memCall'.summary = NoneText
        /\ memCall'.recent = memCall'.history
        /\ ~memCall'.hit /\ ~memCall'.summarized /\ ~memCall'.llm /\ ~memCall'.raised
        /\ summaries' = summaries ]_vars

C2_Witness ==
    /\ IsGetContext(memCall)
    /\ Len(memCall.history) = window_size * 2
    /\ window_size >= 1
    /\ summaries[memCall.user] # NoSummary

\* C3: on a long history the cached summary of the user is reused (no
\* summarizer call, entry unchanged) exactly when it exists and
\* abs(cached.message_count - len(old)) < summarize_threshold; otherwise the
\* summarizer is called and the entry replaced.  With summarize_threshold = 8
\* and a cached summary of 20 messages: reused for len(old) in 13..27,
\* regenerated outside.
C3_ReuseRule ==
    [][ (memCall' # memCall /\ IsGetContext(memCall') /\ IsLong(memCall')) =>
        LET u == memCall'.user
            cached == summaries[u]
            oldlen == Len(memCall'.old)
            close == /\ cached # NoSummary
                     /\ Abs(cached.message_count - oldlen) < summarize_threshold
        IN
        /\ memCall'.hit <=> close
        /\ memCall'.hit =>
              /\ ~memCall'.summarized /\ ~memCall'.llm
              /\ memCall'.summary = cached.summary
              /\ summaries' = summaries
        /\ ~memCall'.hit =>
              /\ memCall'.summarized
              /\ summaries'[u] =
                     ConversationSummary(memCall'.summary, now, oldlen)
              /\ \A v \in Users \ {u} : summaries'[v] = summaries[v]
        /\ (summarize_threshold = 8 /\ cached # NoSummary
               /\ cached.message_count = 20) =>
              (memCall'.hit <=> oldlen \in 13..27) ]_vars

C3_Witness ==
    /\ IsGetContext(memCall) /\ memCall.hit
    /\ summarize_threshold = 8
    /\ summaries[memCall.user].message_count = 20
    /\ Len(memCall.old) = 27
    /\ \E v \in Users \ {memCall.user} : summaries[v] # NoSummary

\* C4, as stated: under any configuration, two get_context calls in
\* immediate succession for the same user and the same long history return
\* the same summary text, and the summarizer runs at most once over the two.
C4_TwiceSameAnyConfig ==
    [][ (memCall' # memCall /\ IsGetContext(memCall') /\ memCall'.repeat
            /\ IsLong(memCall')) =>
        /\ memCall'.summary = memCall.summary
        /\ ~(memCall.llm /\ memCall'.llm) ]_vars

\* C4, amended: under any configuration with summarize_threshold >= 1, two
\* get_context calls in immediate succession for the same user and the same
\* long history return the same summary text; the second call reuses the
\* cache, so the summarizer runs at most once over the two.
C4_TwiceSame ==
    [][ (memCall' # memCall /\ IsGetContext(memCall') /\ memCall'.repeat
            /\ IsLong(memCall') /\ summarize_threshold >= 1) =>
        /\ memCall'.summary = memCall.summary
        /\ memCall'.hit
        /\ ~memCall'.summarized /\ ~memCall'.llm ]_vars

C4_Witness ==
    /\ IsGetContext(memCall) /\ memCall.repeat /\ IsLong(memCall)
    /\ summarize_threshold >= 1
    /\ memCall.hit
    /\ memCall.summary = FallbackText(Len(memCall.old))

\* C5: when the summarization call fails, get_context does not fail: it
\* returns the placeholder that states len(old), with the recent window.
C5_FailureMasked ==
    (IsGetContext(memCall) /\ memCall.failed) =>
        /\ ~memCall.raised
        /\ memCall.summary = FallbackText(Len(memCall.old))
        /\ memCall.recent = RecentMessages(memCall.history)
        /\ summaries[memCall.user] =
               ConversationSummary(FallbackText(Len(memCall.old)), now, Len(memCall.old))

C5_Witness ==
    /\ IsGetContext(memCall) /\ memCall.failed
    /\ Len(memCall.old) >= 2
    /\ memCall.recent # <<>>

(***************************************************************************)
(* Claims about the persisted summary and the cache                        *)
(***************************************************************************)
\* C6: with window_size = 4 and an 18-message history, get_context passes
\* the first 10 messages to the summary, a summary it produces has
\* message_count = 10, and it returns the last 8 raw; once that summary went through store_summary and get_summary and
\* was seeded with load_summary, get_context on the same history returns the
\* text of the stored row without any summarizer call.
C6_Covers10 ==
    (IsGetContext(memCall) /\ Len(memCall.history) = 18 /\ window_size = 4) =>
        /\ memCall.old = SubSeq(memCall.history, 1, 10)
        /\ memCall.recent = SubSeq(memCall.history, 11, 18)
        /\ memCall.summarized =>
              /\ summaries[memCall.user].message_count = 10
              /\ summaries[memCall.user].summary = memCall.summary

C6_Reloaded ==
    (/\ memCall' # memCall
     /\ IsGetContext(memCall') /\ Len(memCall'.history) = 18 /\ window_size = 4
     /\ memCall'.after_load) =>
        \A r \in SummaryRowsOf(memCall'.user) :
            (r.message_count = 10 /\ summaries[memCall'.user] = SummaryOfRow(r)) =>
                /\ memCall'.hit
                /\ memCall'.summary = r.summary
                /\ ~memCall'.summarized /\ ~memCall'.llm
                /\ memCall'.recent = SubSeq(memCall'.history, 11, 18)

C6_RoundTrip == [] C6_Covers10 /\ [][C6_Reloaded]_vars

C6_Witness ==
    /\ IsGetContext(memCall) /\ memCall.after_load /\ memCall.hit
    /\ Len(memCall.history) = 18 /\ window_size = 4
    /\ memCall.summary = ReplyText(<<"A">>)
    /\ \E r \in SummaryRowsOf(memCall.user) :
           /\ r.message_count = 10
           /\ r.summary = memCall.summary
           /\ r.updated_at > 0
           /\ summaries[memCall.user] = SummaryOfRow(r)

(***************************************************************************)
(* Claims about the conversations table                                    *)
(***************************************************************************)
UserRows(u) == RowsOf(conversations, u)
Ids(rows) == { r.id : r \in rows }
Fresh(u) == { r \in UserRows(u) : r.timestamp > now - conversation_timeout }

\* C7: after every append the log of the appending user holds at most
\* max_messages_per_user*2 messages; an append that overflows deletes exactly
\* the excess, the oldest by timestamp, and touches no other user's log;
\* after max_messages_per_user*2 + 5 appends for one user exactly
\* max_messages_per_user*2 messages remain, the most recently appended ones.
C7_Capped ==
    \A u \in Users :
        /\ Cardinality(UserRows(u)) <= max_messages_per_user * 2
        /\ appended[u] >= max_messages_per_user * 2 + 5 =>
               /\ Cardinality(UserRows(u)) = max_messages_per_user * 2
               /\ appended[u] = next_id - 1 =>
                      Ids(UserRows(u)) =
                          (next_id - max_messages_per_user * 2)..(next_id - 1)

C7_AppendPrunes ==
    next_id' # next_id =>
        LET u == storeCall'.user
            before == UserRows(u)
            after == RowsOf(conversations', u)
            new == { r \in after : r.id = next_id }
            gone == before \ after
        IN
        /\ after \subseteq before \cup new
        /\ \A r \in new : r.timestamp = now
        /\ Cardinality(before) + 1 - Cardinality(after) =
               Max(Cardinality(before) + 1 - max_messages_per_user * 2, 0)
        /\ \A d \in gone : \A k \in after :
               d.timestamp <= k.timestamp /\ d.id < k.id
        /\ \A v \in Users \ {u} : RowsOf(conversations', v) = UserRows(v)

C7_Pruning == [] C7_Capped /\ [][C7_AppendPrunes]_vars

C7_Witness ==
    /\ storeCall.op = "add_message"
    /\ appended[storeCall.user] = max_messages_per_user * 2 + 5
    /\ \E r \in UserRows(storeCall.user) : r.timestamp < now

\* C8: history(user) returns exactly the stored messages of that user whose
\* timestamp is newer than now - conversation_timeout, oldest first, and at
\* most max_messages_per_user*2 of them.
C8_HistoryExact ==
    (storeCall.op = "get_history" /\ storeCall.at = now) =>
        LET result == storeCall.result IN
        /\ Len(result) = Cardinality(Fresh(storeCall.user))
        /\ SeqRange(result) = { ConversationMessage(r) : r \in Fresh(storeCall.user) }
        /\ \A i \in 1..Len(result) : \A j \in i..Len(result) :
               result[i].timestamp <= result[j].timestamp
        /\ Len(result) <= max_messages_per_user * 2

C8_Witness ==
    /\ storeCall.op = "get_history" /\ storeCall.at = now
    /\ Len(storeCall.result) = 1
    /\ Cardinality(UserRows(storeCall.user)) = 2
    /\ \E r \in conversations :
           r.user_id # storeCall.user /\ r.timestamp > now - conversation_timeout

\* C9, the part about sweep_expired: cleanup_expired deletes the expired
\* messages of all users (those history no longer returns) in one step.
C9_SweepDeletesExpired ==
    (storeCall.op = "cleanup_expired" /\ storeCall.at = now) =>
        \A r \in conversations : r.timestamp > now - conversation_timeout

\* C9, the parts the code keeps: get_history deletes nothing, and
\* cleanup_expired returns the number of rows it deleted, all of them
\* expired.
C9_ReadKeeps ==
    [][ /\ storeCall'.op = "get_history" => conversations' = conversations
        /\ (storeCall' # storeCall /\ storeCall'.op = "cleanup_expired") =>
              /\ conversations' \subseteq conversations
              /\ storeCall'.rowcount = Cardinality(conversations \ conversations')
              /\ \A r \in conversations \ conversations' :
                     r.timestamp <= now - conversation_timeout ]_vars

\* C11: clear_history(user) deletes every stored message of that user,
\* returns the number deleted and leaves the messages of other users as they
\* were; a get_history(user) that follows it returns the empty sequence.
C11_Cleared ==
    storeCall.op = "clear_history" => UserRows(storeCall.user) = {}

C11_ClearStep ==
    /\ (storeCall' # storeCall /\ storeCall'.op = "clear_history") =>
           /\ conversations' = conversations \ UserRows(storeCall'.user)
           /\ storeCall'.rowcount = Cardinality(UserRows(storeCall'.user))
           /\ \A v \in Users \ {storeCall'.user} :
                  RowsOf(conversations', v) = UserRows(v)
    /\ (storeCall.op = "clear_history" /\ storeCall'.op = "get_history"
            /\ storeCall'.user = storeCall.user) =>
           storeCall'.result = <<>>

C11_Clear == [] C11_Cleared /\ [][C11_ClearStep]_vars

C11_Witness ==
    /\ storeCall.op = "clear_history"
    /\ storeCall.rowcount = 2
    /\ \E v \in Users \ {storeCall.user} : UserRows(v) # {}

\* C12: messages appended with non-decreasing timestamps are returned by
\* get_history in the order they were inserted, also when their timestamps
\* are equal, and pruning among rows of equal timestamp deletes the one
\* inserted earlier.  (The content of a message of the stream is its
\* insertion number.)
C12_InsertionOrder ==
    (storeCall.op = "get_history" /\ storeCall.at = now) =>
        /\ \A i \in 1..Len(storeCall.result) : \A j \in (i+1)..Len(storeCall.result) :
               storeCall.result[i].content < storeCall.result[j].content
        /\ { m.content : m \in SeqRange(storeCall.result) } = Ids(Fresh(storeCall.user))

C12_PruneTies ==
    next_id' # next_id =>
        \A d \in UserRows(storeCall'.user) \ conversations' :
            \A k \in RowsOf(conversations', storeCall'.user) :
                d.timestamp = k.timestamp => d.id < k.id

C12_Stable == [] C12_InsertionOrder /\ [][C12_PruneTies]_vars

C12_Witness ==
    /\ storeCall.op = "get_history" /\ storeCall.at = now
    /\ Len(storeCall.result) = 2
    /\ storeCall.result[1].timestamp = storeCall.result[2].timestamp
    /\ now = 0
    /\ appended[storeCall.user] = 3
    /\ next_id = 4

(***************************************************************************)
(* Claims about the conversation_summaries table                           *)
(***************************************************************************)
\* C10: store_summary replaces: there is at most one row per user,
\* get_summary returns the text and the count of the last store_summary for
\* the user (None when it was cleared since, or never stored), and no
\* operation changes the row of another user.
C10_OneRow ==
    /\ \A u \in Users : Cardinality(SummaryRowsOf(u)) <= 1
    /\ sumCall.op = "get_summary" => sumCall.result = lastStored[sumCall.user]

C10_OthersKept ==
    conversation_summaries' # conversation_summaries =>
        \A v \in Users \ {sumCall'.user} :
            { r \in conversation_summaries' : r.user_id = v } = SummaryRowsOf(v)

C10_Replace == [] C10_OneRow /\ [][C10_OthersKept]_vars

C10_Witness ==
    /\ sumCall.op = "get_summary"
    /\ sumCall.result # NoRow
    /\ sumCall.result.updated_at > 0
    /\ sumCall.result.message_count = 10
    /\ \E v \in Users \ {sumCall.user} : SummaryRowsOf(v) # {}

(***************************************************************************)
(* Claims about FallbackBackend.generate                                   *)
(***************************************************************************)
Entered(f) == f.pc # "idle" \/ f.outcome # "none"
Ended(f) == f.pc = "idle" /\ f.outcome # "none"
Failed(f) == Ended(f) /\ f.outcome = "raise" /\ f.value # CancelledError
CompletedBy(f, by) == { i \in 1..Len(f.trace) : f.trace[i].by = by }
FailuresOf(f, by) ==
    { i \in CompletedBy(f, by) : f.trace[i].kind # "text" }
TriedBy(f, by) ==
    Cardinality(CompletedBy(f, by)) + (IF f.pc = by THEN 1 ELSE 0)
Permitted(c) ==
    /\ c.kind = "timeout" => fallback_on_timeout
    /\ c.kind = "error" => fallback_on_error

PrimaryFirst(f) ==
    \/ f.trace # <<>> /\ f.trace[1].by = "primary"
    \/ f.trace = <<>> /\ f.pc = "primary"

C13_Rest(f) ==
    /\ TriedBy(f, "primary") <= retry_attempts
    /\ \A i \in CompletedBy(f, "primary") :
           f.trace[i].kind = "text" =>
               /\ i = Len(f.trace)
               /\ f.outcome = "return" /\ f.value = f.trace[i]
               /\ TriedBy(f, "fallback") = 0
    /\ TriedBy(f, "fallback") > 0 =>
           Cardinality(FailuresOf(f, "primary")) >= retry_attempts

\* C13 as stated: every generate call tries the primary first, whatever
\* using_fallback is, makes at most retry_attempts primary attempts, stops at
\* the first primary success and returns its text without the fallback; the
\* fallback is not invoked before retry_attempts primary attempts failed.
C13_PrimaryFirstAlways ==
    \A t \in Tasks : Entered(gen[t]) => PrimaryFirst(gen[t]) /\ C13_Rest(gen[t])

\* C13, amended: the same for retry_attempts >= 1; with retry_attempts <= 0
\* the loop body never runs and the call makes no primary attempt at all.
C13_PrimaryFirst ==
    \A t \in Tasks : Entered(gen[t]) =>
        /\ retry_attempts >= 1 => PrimaryFirst(gen[t])
        /\ retry_attempts <= 0 => TriedBy(gen[t], "primary") = 0
        /\ C13_Rest(gen[t])

C13_Witness ==
    \E t \in Tasks :
        /\ gen[t].entry
        /\ gen[t].outcome = "return"
        /\ gen[t].value = Completion("text", "primary", 1)

\* C14: when all retry_attempts primary attempts of a call failed, each with
\* its flag permitting continuation, and a fallback is configured, the
\* fallback is invoked exactly once in the call; it is never invoked twice;
\* with retry_attempts = 2 and two primary timeouts the call is two primary
\* attempts followed by one fallback invocation.
C14_FallbackOnce ==
    \A t \in Tasks : LET f == gen[t] IN
        /\ TriedBy(f, "fallback") <= 1
        /\ ( /\ Ended(f) /\ f.value # CancelledError
             /\ fallback
             /\ Cardinality(FailuresOf(f, "primary")) = Max(retry_attempts, 0)
             /\ \A i \in FailuresOf(f, "primary") : Permitted(f.trace[i]) )
           => /\ Cardinality(CompletedBy(f, "fallback")) = 1
              /\ f.trace[Len(f.trace)].by = "fallback"
        /\ ( /\ Ended(f) /\ f.value # CancelledError
             /\ retry_attempts = 2 /\ fallback /\ fallback_on_timeout
             /\ Len(f.trace) >= 2
             /\ f.trace[1] = Completion("timeout", "primary", 0)
             /\ f.trace[2] = Completion("timeout", "primary", 1) )
           => /\ Len(f.trace) = 3
              /\ f.trace[3].by = "fallback"

C14_Witness ==
    \E t \in Tasks :
        /\ retry_attempts = 2
        /\ Ended(gen[t])
        /\ gen[t].trace = << Completion("timeout", "primary", 0),
                             Completion("timeout", "primary", 1),
                             Completion("error", "fallback", 0) >>

\* C15: using_fallback is true exactly when the most recent generate call that
\* succeeded was served by the fallback, false when it was served by the
\* primary and false before any success.
C15_FlagIsLastServer ==
    using_fallback = (served[2] = "fallback")

C15_Witness ==
    /\ served = <<"fallback", "primary">>
    /\ ~using_fallback

\* C16: a primary timeout with fallback_on_timeout off, or a primary error
\* with fallback_on_error off, ends the call at once: no later attempt, no
\* fallback, and the call raises that failure.
C16_FlagOffAborts ==
    \A t \in Tasks : LET f == gen[t] IN
        \A i \in FailuresOf(f, "primary") :
            ~Permitted(f.trace[i]) =>
                /\ i = Len(f.trace)
                /\ Ended(f) /\ f.outcome = "raise" /\ f.value = f.trace[i]
                /\ TriedBy(f, "fallback") = 0

C16_Witness ==
    \E t \in Tasks :
        /\ fallback /\ retry_attempts = 2
        /\ fallback_on_timeout /\ ~fallback_on_error
        /\ gen[t].trace = << Completion("timeout", "primary", 0),
                             Completion("error", "primary", 1) >>
        /\ gen[t].outcome = "raise"

\* C17: a call that fails raises the error of the last backend it tried: the
\* fallback's if the fallback was invoked, the primary's last one if no
\* fallback is configured; a call that tried no backend at all raises
\* RuntimeError; no call returns text unless a backend produced it.
C17_LastError ==
    \A t \in Tasks : LET f == gen[t] IN
        /\ Failed(f) =>
              /\ f.trace # <<>> =>
                     /\ f.value = f.trace[Len(f.trace)]
                     /\ f.value.kind \in {"timeout", "error"}
              /\ f.trace = <<>> => f.value = RuntimeError
              /\ CompletedBy(f, "fallback") # {} => f.value.by = "fallback"
              /\ (~fallback /\ f.trace # <<>>) =>
                     /\ f.value.by = "primary"
                     /\ \A i \in FailuresOf(f, "primary") : i <= f.value.attempt + 1
        /\ (Ended(f) /\ f.outcome = "return") =>
              /\ f.trace # <<>>
              /\ f.value = f.trace[Len(f.trace)]
              /\ f.value.kind = "text"
        /\ (Ended(f) /\ f.value # CancelledError
                /\ (f.trace = <<>> \/ f.trace[Len(f.trace)].kind # "text")) =>
              f.outcome = "raise"

C17_Witness ==
    \E t \in Tasks :
        /\ Failed(gen[t])
        /\ gen[t].trace = << Completion("error", "primary", 0),
                             Completion("timeout", "fallback", 0) >>
        /\ gen[t].value = Completion("timeout", "fallback", 0)

\* C18: _using_fallback changes only in the step in which a provider call
\* completes with a result and the generate call returns; a call that ends
\* by raising, cancellation included, does not change it, and while no other
\* task has called generate a call that has not returned leaves it at the
\* value it had when the call was entered.
C18_OnlyOnReturn ==
    /\ using_fallback' # using_fallback =>
           \E t \in Tasks :
               gen[t].pc # "idle" /\ gen'[t].pc = "idle" /\ gen'[t].outcome = "return"
    /\ \A t \in Tasks :
           (gen'[t] # gen[t] /\ gen'[t].outcome # "return") =>
               using_fallback' = using_fallback

C18_Kept ==
    \A t \in Tasks :
        ( /\ Entered(gen[t]) /\ gen[t].outcome # "return"
          /\ \A u \in Tasks \ {t} : gen[u] = Idle )
        => using_fallback = gen[t].entry

C18_Frame == [] C18_Kept /\ [][C18_OnlyOnReturn]_vars

C18_Witness ==
    \E t \in Tasks :
        /\ gen[t].value = CancelledError
        /\ gen[t].entry /\ using_fallback
        /\ Len(gen[t].trace) = 2
        /\ \E u \in Tasks \ {t} : gen[u].pc = "fallback"

(***************************************************************************)
(* Claims about RateLimiter                                                *)
(***************************************************************************)
\* the entries of a list of times that lie in the trailing window
InWindow(times) == { i \in 1..Len(times) : times[i] > now - Window }
PastCooldown(state) ==
    \/ state.last_response_time = 0
    \/ now - state.last_response_time >= cooldown_seconds

\* the is_allowed call is one of the first 14 messages of a user, all within
\* 60 seconds, under messages_per_minute = 10, burst_allowance = 3 and no
\* cooldown, with every admitted message recorded and the global limit not
\* reached
InScenario ==
    /\ rateCall.op = "is_allowed"
    /\ messages_per_minute = 10 /\ burst_allowance = 3 /\ cooldown_seconds = 0
    /\ rateCall.user \notin vip_nodes
    /\ turns[rateCall.user].paired
    /\ turns[rateCall.user].checks = rateCall.nth
    /\ rateCall.at - turns[rateCall.user].first < Window
    /\ Len(global_times) < global_messages_per_minute
    /\ rateCall.nth <= 14

\* C19: for a user not on the bypass list who is past cooldown, while the
\* global limit is not reached, is_allowed decides by the user's count in
\* the trailing 60 seconds: below messages_per_minute it allows and sets
\* burst_count to 0; at or above it with burst_count < burst_allowance it
\* allows and adds one to burst_count; at or above it with burst_count >=
\* burst_allowance it denies.  In the scenario messages 1 to 13 are allowed
\* and the 14th is denied.
C19_Rule ==
    (rateCall'.op = "is_allowed" /\ turns' # turns) =>
        LET u == rateCall'.user
            state == user_states[u]
            count == Cardinality(InWindow(state.message_times))
        IN
        ( /\ u \notin vip_nodes
          /\ PastCooldown(state)
          /\ Cardinality(InWindow(global_times)) < global_messages_per_minute )
        => /\ count < messages_per_minute =>
                  rateCall'.allowed /\ user_states'[u].burst_count = 0
           /\ (count >= messages_per_minute
                   /\ state.burst_count < burst_allowance) =>
                  /\ rateCall'.allowed
                  /\ user_states'[u].burst_count = state.burst_count + 1
           /\ (count >= messages_per_minute
                   /\ state.burst_count >= burst_allowance) =>
                  /\ ~rateCall'.allowed
                  /\ user_states'[u].burst_count = state.burst_count

C19_Scenario == InScenario => (rateCall.allowed <=> rateCall.nth <= 13)

C19_Admission == [] C19_Scenario /\ [][C19_Rule]_vars

C19_Witness ==
    /\ InScenario
    /\ rateCall.nth = 14
    /\ ~rateCall.allowed
    /\ user_states[rateCall.user].burst_count = 3
    /\ now > turns[rateCall.user].first

\* C20 as stated: in the scenario the decisions for the 11th, 12th, 13th and
\* 14th message all carry a reason text.
C20_ReasonPresent ==
    (InScenario /\ rateCall.nth >= 11) => rateCall.reason # NoReason

\* C20, amended: in the scenario the 11th, 12th and 13th message are allowed
\* with no reason (None), and the 14th is denied with the reason text
\* "Rate limit exceeded (per-user)".
C20_ReasonOnDenial ==
    /\ (InScenario /\ rateCall.nth \in 11..13) =>
           rateCall.allowed /\ rateCall.reason = NoReason
    /\ (InScenario /\ rateCall.nth = 14) =>
           ~rateCall.allowed /\ rateCall.reason = PerUserReason

C20_Witness ==
    /\ InScenario
    /\ rateCall.nth = 13
    /\ rateCall.allowed
    /\ rateCall.reason = NoReason
    /\ user_states[rateCall.user].burst_count = 3

IsCheckStep == rateCall'.op = "is_allowed" /\ turns' # turns
Kept(times) == SelectSeq(times, LAMBDA t : t > now - Window)
IsCooldown(reason) == reason.text = "Cooldown: wait"

C21_Denies ==
    IsCheckStep =>
        LET u == rateCall'.user
            within == turns[u].recorded > 0
                          /\ now < turns[u].recorded + cooldown_seconds
        IN
        /\ (u \notin vip_nodes /\ within) =>
               /\ ~rateCall'.allowed
               /\ rateCall'.reason =
                      CooldownReason(turns[u].recorded + cooldown_seconds - now)
        /\ IsCooldown(rateCall'.reason) => (u \notin vip_nodes /\ within)
        /\ turns[u].recorded = 0 => ~IsCooldown(rateCall'.reason)

\* C21 as stated: after record_message(u) at time t every is_allowed(u)
\* before t + cooldown_seconds is denied with a cooldown reason, a user
\* never recorded is never denied for cooldown, and a cooldown denial changes
\* neither burst_count nor any recorded timestamp.
C21_DenialChangesNothing ==
    [][ /\ C21_Denies
        /\ (IsCheckStep /\ IsCooldown(rateCall'.reason)) =>
               /\ user_states' = user_states
               /\ global_times' = global_times ]_vars

\* C21, amended: ... a cooldown denial changes no burst_count and no
\* last_response_time and adds no timestamp; like every check of a user who
\* is not on the bypass list it drops the timestamps that have left the
\* window from the user's list and from the global list.
C21_Cooldown ==
    [][ /\ C21_Denies
        /\ (IsCheckStep /\ IsCooldown(rateCall'.reason)) =>
               /\ user_states' = [user_states EXCEPT ![rateCall'.user] =
                      [@ EXCEPT !.message_times = Kept(@)]]
               /\ global_times' = Kept(global_times) ]_vars

C21_Witness ==
    /\ rateCall.op = "is_allowed" /\ rateCall.at = now
    /\ IsCooldown(rateCall.reason)
    /\ user_states[rateCall.user].burst_count = 1
    /\ Len(global_times) = 1
    /\ now > Window

\* C22: whenever the number of messages recorded in the trailing 60 seconds
\* over all users is at or above global_messages_per_minute, is_allowed
\* denies every user who is not on the bypass list, whatever the user's own
\* count, burst_count and cooldown.
C22_GlobalDenies ==
    [][ ( /\ IsCheckStep
          /\ rateCall'.user \notin vip_nodes
          /\ Cardinality(InWindow(global_times)) >= global_messages_per_minute )
        => ~rateCall'.allowed ]_vars

C22_Witness ==
    /\ rateCall.op = "is_allowed" /\ rateCall.at = now
    /\ rateCall.reason = GlobalReason
    /\ user_states[rateCall.user].message_times = <<>>
    /\ Len(global_times) = global_messages_per_minute

\* C23: is_allowed for a user on the bypass list returns allowed with no
\* reason and changes no state of the limiter, also while that user's
\* cooldown runs, the per-user limit is reached and the global limit is
\* reached.
C23_Bypass ==
    [][ (IsCheckStep /\ rateCall'.user \in vip_nodes) =>
            /\ rateCall'.allowed /\ rateCall'.reason = NoReason
            /\ user_states' = user_states
            /\ global_times' = global_times ]_vars

C23_Witness ==
    /\ rateCall.op = "is_allowed" /\ rateCall.at = now
    /\ rateCall.user \in vip_nodes
    /\ rateCall.allowed
    /\ user_states[rateCall.user].last_response_time = now
    /\ Len(user_states[rateCall.user].message_times) >= messages_per_minute
    /\ Cardinality(InWindow(global_times)) >= global_messages_per_minute

\* C24: right after any is_allowed(u), for any user u, every timestamp kept
\* in u's message_times and in the global list is newer than now - 60.
C24_AllInWindow ==
    (rateCall.op = "is_allowed" /\ rateCall.at = now) =>
        /\ \A i \in 1..Len(user_states[rateCall.user].message_times) :
               user_states[rateCall.user].message_times[i] > now - Window
        /\ \A i \in 1..Len(global_times) : global_times[i] > now - Window

\* C24, the parts the code keeps: the same for a user who is not on the
\* bypass list, and no operation but is_allowed and the resets removes a
\* timestamp.
C24_NonBypass ==
    [] ((rateCall.op = "is_allowed" /\ rateCall.at = now
             /\ rateCall.user \notin vip_nodes) =>
           /\ \A i \in 1..Len(user_states[rateCall.user].message_times) :
                  user_states[rateCall.user].message_times[i] > now - Window
           /\ \A i \in 1..Len(global_times) : global_times[i] > now - Window)
    /\ [][ rateCall'.op \notin {"is_allowed", "reset_user", "reset_all"} =>
             /\ Len(global_times') >= Len(global_times)
             /\ \A u \in Users : Len(user_states'[u].message_times)
                                     >= Len(user_states[u].message_times) ]_vars

\* C25: an is_allowed(u) that is not followed by record_message(u) counts no
\* message and uses up no burst allowance: an is_allowed(u) repeated at the
\* same instant returns the same decision.
C25_CheckCommitsNothing ==
    [][ ( /\ IsCheckStep
          /\ rateCall.op = "is_allowed" /\ rateCall.user = rateCall'.user
          /\ rateCall.at = now )
        => /\ rateCall'.allowed = rateCall.allowed
           /\ user_states'[rateCall'.user].burst_count
                  = user_states[rateCall'.user].burst_count ]_vars

(***************************************************************************)
(* Tasks calling the methods of one ConversationHistory, interleaved at    *)
(* their awaits, with storage errors                                      *)
(***************************************************************************)
MaxTaskAppends == 3
MaxTaskAppendsOther == 1
MaxTaskTime == 1
MaxFaults == 1
TaskPairs == {1}

\* what the tasks leave alone
TaskFrame ==
    UNCHANGED <<now, memVars, max_messages_per_user, conversation_timeout, appended,
                lastStored, sumCall, genVars, rateVars, ctx, handling, origin>>

\* appends that are called and have not inserted yet
Inserting == { t \in StoreTasks : store[t].op = "add_message"
                                   /\ store[t].pc \in {"wait", "insert"} }

InitTask ==
    /\ now = 0
    /\ InitRest
    /\ InitMemory({DefaultWindowSize}, {DefaultSummarizeThreshold})
    /\ InitConversations(TaskPairs, Timeouts)
    /\ InitSummaries

\* the first task works for the first user, the second for either; appends
\* go mostly to the first user
MayEnter(t, op, u) ==
    /\ t = "s1" => u = "u1"
    /\ op = "add_message" =>
           /\ next_id + Cardinality(Inserting) <= MaxTaskAppends
           /\ u # "u1" => next_id + Cardinality(Inserting) <= MaxTaskAppendsOther

TaskEnter ==
    /\ \E t \in StoreTasks, op \in StoreOps, u \in Users :
           MayEnter(t, op, u) /\ Enter(t, op, u)
    /\ TaskFrame
TaskInsert == (\E t \in StoreTasks : ExecuteInsert(t)) /\ TaskFrame
TaskCount == (\E t \in StoreTasks : ExecuteCount(t)) /\ TaskFrame
TaskDelete == (\E t \in StoreTasks : ExecuteDelete(t)) /\ TaskFrame
TaskSelect == (\E t \in StoreTasks : ExecuteSelect(t)) /\ TaskFrame
TaskClear == (\E t \in StoreTasks : ExecuteClear(t)) /\ TaskFrame
TaskSweep == (\E t \in StoreTasks : ExecuteSweep(t)) /\ TaskFrame
TaskReplace == (\E t \in StoreTasks : ExecuteReplace(t)) /\ TaskFrame
TaskCommit == (\E t \in StoreTasks : Commit(t)) /\ TaskFrame
\* the clock passes the conversation timeout
TaskTick ==
    /\ now < MaxTaskTime
    /\ now' = now + conversation_timeout + 1
    /\ UNCHANGED <<convVars, genVars, rateVars, concVars>>

NextTask ==
    \/ TaskEnter \/ TaskInsert \/ TaskCount \/ TaskDelete \/ TaskSelect
    \/ TaskClear \/ TaskSweep \/ TaskReplace \/ TaskCommit \/ TaskTick

SpecTask == InitTask /\ [][NextTask]_vars

\* The same tasks appending and storing summaries, with storage errors
FaultOps == {"add_message", "store_summary"}

FaultEnter ==
    /\ \E t \in StoreTasks, op \in FaultOps, u \in Users :
           MayEnter(t, op, u) /\ Enter(t, op, u)
    /\ TaskFrame
TaskExecuteFails ==
    /\ faults < MaxFaults
    /\ \E t \in StoreTasks : ExecuteFails(t)
    /\ TaskFrame
TaskCommitFails ==
    /\ faults < MaxFaults
    /\ \E t \in StoreTasks, rolled_back \in BOOLEAN : CommitFails(t, rolled_back)
    /\ TaskFrame

NextFault ==
    \/ FaultEnter \/ TaskInsert \/ TaskCount \/ TaskDelete \/ TaskReplace
    \/ TaskCommit \/ TaskExecuteFails \/ TaskCommitFails

SpecFault == InitTask /\ [][NextFault]_vars

\* a task is inside the async with block of a method
Inside(t) == store[t].pc \in Statements \cup Commits

\* tasks between the INSERT of an append and the end of its prune
Appending == { t \in StoreTasks : store[t].pc \in {"insert_commit", "count", "delete",
                                                     "delete_commit"} }

\* the k newest of a user's rows, in the order the store reads them
NewestOf(rows, k) ==
    LET seq == OrderByTimestamp(rows)
    IN SeqRange(SubSeq(seq, Max(1, Len(seq) - k + 1), Len(seq)))

\* the step is the DELETE of task t's prune
IsPruneDelete(t) == store[t].pc = "delete" /\ store'[t].pc = "delete_commit"

\* while an append is between its INSERT and the end of its prune, no other
\* operation for the same user is inside the store
C26_NothingBetween ==
    \A a \in Appending, b \in StoreTasks :
        b # a /\ store[b].user = store[a].user => ~Inside(b)

\* outside of an append's own critical section the user's log has at most
\* max_messages_per_user*2 messages: that is all any other task can read
C26_ReadsCapped ==
    \A u \in Users :
        (\A t \in Appending : store[t].user # u)
            => Cardinality(RowsOf(conversations, u)) <= MaxMessages

\* a prune deletes none of the newest max_messages_per_user*2 messages
C26_PruneSparesNewest ==
    \A t \in StoreTasks :
        IsPruneDelete(t)
            => /\ (conversations \ conversations')
                      \cap NewestOf(RowsOf(conversations, store[t].user), MaxMessages)
                  = {}
               /\ Cardinality(RowsOf(conversations', store[t].user)) = MaxMessages

\* C26: under any interleaving of tasks the INSERT and the prune of one
\* append are one critical section: no other store operation for the same
\* user runs between them, no task reads a log of more than
\* max_messages_per_user*2 messages, and no prune deletes a message that is
\* among the newest max_messages_per_user*2.
C26_CriticalSection ==
    /\ [](C26_NothingBetween /\ C26_ReadsCapped)
    /\ [][C26_PruneSparesNewest]_vars

\* an append is about to prune while another operation for the same user
\* waits for the lock
C26_Witness ==
    \E a, b \in StoreTasks :
        /\ store[a].pc = "delete"
        /\ store[b].pc = "wait"
        /\ store[b].user = store[a].user
        /\ store[b].op \in {"add_message", "get_history"}

IsEnter(t) == store[t].pc = "idle" /\ store'[t].pc # "idle"

IsFailure(t) ==
    /\ store[t].pc \in Statements \cup Commits
    /\ store'[t].pc = "idle"
    /\ faults' = faults + 1

\* C29: an append or a store_summary that fails with a storage error leaves
\* the messages and the summaries, as read and as committed, exactly what
\* they were when the call began.
C29_FailureChangesNothing ==
    [][\A t \in StoreTasks :
           IsFailure(t) /\ store[t].op \in {"add_message", "store_summary"}
               => /\ conversations' = store[t].before.conversations
                  /\ conversation_summaries' = store[t].before.conversation_summaries
                  /\ committed'.conversations = store[t].before.conversations
                  /\ committed'.conversation_summaries
                         = store[t].before.conversation_summaries]_vars

\* what does hold: a store_summary or an append whose statement fails before
\* anything was committed leaves the committed tables as they were
C29_NothingCommitted ==
    [][\A t \in StoreTasks :
           IsFailure(t) /\ store[t].pc \in {"insert", "insert_commit", "replace",
                                            "replace_commit"}
               => committed' = committed]_vars

(***************************************************************************)
(* Tasks calling get_context_messages of one RollingSummaryMemory          *)
(***************************************************************************)
MaxContextHist == 3
MaxContextTime == 1
ContextWindows == {1}
ContextThresholds == {1}

InitCtx ==
    /\ now = 0
    /\ InitRest
    /\ InitMemory(ContextWindows, ContextThresholds)
    /\ InitConversations({DefaultMaxMessagesPerUser}, {DefaultConversationTimeout})
    /\ InitSummaries

CtxFrame ==
    UNCHANGED <<now, storeVars, sumVars, genVars, rateVars, taskVars, handling, origin>>

CtxEnter ==
    /\ \E t \in ContextTasks, u \in Users, n \in 0..MaxContextHist :
           ContextEnter(t, u, History(n))
    /\ CtxFrame
CtxResume ==
    /\ \E t \in ContextTasks, reply \in LLMOutcomes : ContextResume(t, reply)
    /\ CtxFrame
CtxTick ==
    /\ now < MaxContextTime
    /\ now' = now + 1
    /\ UNCHANGED <<convVars, genVars, rateVars, concVars>>

NextCtx == CtxEnter \/ CtxResume \/ CtxTick

SpecCtx == InitCtx /\ [][NextCtx]_vars

\* the step is task t assigning its new summary to the cache
IsCacheStore(t) == ctx[t].pc = "summarize" /\ ctx'[t].pc = "idle"

\* C27: check, summarize and store of the summary cache are atomic for one
\* user: no two tasks have the summarizer running for the same user and the
\* same old segment, and a summary is assigned to the cache only while the
\* cache entry is still the one its call checked.
C27_Atomic ==
    /\ [](\A a, b \in ContextTasks :
              /\ ctx[a].pc = "summarize" /\ ctx[b].pc = "summarize"
              /\ ctx[a].user = ctx[b].user
              /\ OldMessages(ctx[a].history) = OldMessages(ctx[b].history)
              => a = b)
    /\ [][\A t \in ContextTasks :
              IsCacheStore(t) => summaries[ctx[t].user] = ctx[t].seen]_vars

\* what does hold: a call that finds a reusable entry returns it without
\* suspending, and a call assigns the summary of its own old segment
C27_OwnSegment ==
    [][\A t \in ContextTasks :
           IsCacheStore(t)
               => summaries'[ctx[t].user].message_count
                      = Len(OldMessages(ctx[t].history))]_vars

(***************************************************************************)
(* Messages handled one after another                                      *)
(***************************************************************************)
MaxTurns == 4
MaxTurnsOther == 1
MaxTurnTime == 1
TurnPairs == {2}
TurnWindows == {1}
TurnThresholds == {1}

InitTurns ==
    /\ now = 0
    /\ InitRest
    /\ InitMemory(TurnWindows, TurnThresholds)
    /\ InitConversations(TurnPairs, {DefaultConversationTimeout})
    /\ InitSummaries

\* the limiter, the generator and the tasks of the other specifications
TurnRest == UNCHANGED <<genVars, rateVars, taskVars, ctx>>

TurnsReset ==
    /\ \E u \in Users : TurnReset(u)
    /\ UNCHANGED <<now, memVars>>
    /\ TurnRest
TurnsRestart ==
    /\ TurnRestart
    /\ UNCHANGED <<now, storeVars, sumVars>>
    /\ TurnRest

\* most turns are the first user's
TurnsReceive ==
    /\ next_id < 2 * MaxTurns
    /\ \E u \in Users :
           /\ u # "u1" => next_id < 2 * MaxTurnsOther
           /\ TurnReceive(u)
    /\ UNCHANGED <<now, convVars>>
    /\ TurnRest
TurnsAppendUser ==
    /\ TurnAppendUser
    /\ UNCHANGED <<now, memVars, sumVars>>
    /\ TurnRest
TurnsHistory ==
    /\ TurnHistory
    /\ UNCHANGED <<now, memVars, sumVars>>
    /\ TurnRest
TurnsGenerate ==
    /\ \E outcome \in GenerateOutcomes : TurnGenerate(outcome)
    /\ UNCHANGED <<now, storeVars, sumVars>>
    /\ TurnRest
TurnsAppendAssistant ==
    /\ TurnAppendAssistant
    /\ UNCHANGED <<now, memVars, sumVars>>
    /\ TurnRest
TurnsPersist ==
    /\ TurnPersist
    /\ UNCHANGED <<now, memVars, storeVars>>
    /\ TurnRest
TurnsTick ==
    /\ now < MaxTurnTime
    /\ handling.pc = "idle"
    /\ now' = now + 1
    /\ UNCHANGED <<convVars, genVars, rateVars, concVars>>

NextTurns ==
    \/ TurnsReceive \/ TurnsAppendUser \/ TurnsHistory \/ TurnsGenerate
    \/ TurnsAppendAssistant \/ TurnsPersist \/ TurnsTick
    \/ TurnsReset \/ TurnsRestart

SpecTurns == InitTurns /\ [][NextTurns]_vars

\* C30: admission control is consulted before the user's message is
\* appended: every user message in the store, and every message at its
\* generate step, belongs to a user for whom is_allowed was called and
\* answered allowed, and the limiter was told of the message.
C30_AdmittedBeforeAppend ==
    /\ \A r \in conversations : r.role = "user" => turns[r.user_id].checks > 0
    /\ handling.pc \in {"history", "generate", "append_assistant", "persist"}
           => turns[handling.user].checks > 0

\* what does hold: a turn appends the user's message before anything else,
\* and the limiter is in its initial state at every step of every turn
C30_NeverConsulted ==
    /\ rateCall.op # "is_allowed"
    /\ \A u \in Users : turns[u] = NoTurns
    /\ handling.pc \in {"generate", "append_assistant", "persist"}
           => \E r \in conversations : r.role = "user" /\ r.user_id = handling.user

\* the texts _summarize makes up itself name the number of messages it was given
CountedTexts ==
    {"Previous conversation: {n} messages.",
     "Previous conversation: {n} messages about various topics."}

\* the step is a get_context_messages that assigned a new entry to the cache
IsNewEntry(u) ==
    /\ memCall'.op = "get_context_messages"
    /\ summaries'[u] # summaries[u]

\* C33: every entry get_context_messages creates has the text its summarizer
\* call returned and, as message_count, the length of the old segment given
\* to that call; text and count are assigned together, in one step, and only
\* for the user of the call.
C33_CountIsInput ==
    /\ [](/\ memCall.op = "get_context_messages"
          /\ memCall.summarized
          /\ ~memCall.raised
          => /\ summaries[memCall.user].summary = memCall.summary
             /\ summaries[memCall.user].message_count = Len(memCall.old)
             /\ memCall.summary.kind \in CountedTexts
                    => memCall.summary.n = Len(memCall.old))
    /\ [][\A u \in Users :
              IsNewEntry(u)
                  => /\ u = memCall'.user
                     /\ memCall'.summarized
                     /\ summaries'[u].summary = memCall'.summary
                     /\ summaries'[u].message_count = Len(memCall'.old)]_vars

\* an entry was created for an old segment of several messages
C33_Witness ==
    /\ memCall.op = "get_context_messages"
    /\ memCall.summarized
    /\ Len(memCall.old) >= 2
    /\ summaries[memCall.user].message_count = Len(memCall.old)

\* C34 as stated: with window_size 0 every non-empty history goes to the
\* summarizer whole and the recent window returned is empty.
C34_AllSummarized ==
    /\ window_size = 0
    /\ memCall.op = "get_context_messages"
    /\ memCall.history # <<>>
    => /\ memCall.old = memCall.history
       /\ memCall.recent = <<>>

\* C34: with window_size 0, get_context_messages returns (None, history)
\* only for the empty history; for a non-empty history the old segment is
\* empty, the whole history is returned as the recent messages, no
\* completion call is made, and a summary that is created is the fixed text for
\* no previous conversation.
C34_ZeroWindow ==
    /\ window_size = 0
    /\ memCall.op = "get_context_messages"
    => IF memCall.history = <<>>
       THEN /\ memCall.summary = NoneText
            /\ memCall.recent = <<>>
            /\ ~memCall.hit /\ ~memCall.summarized
       ELSE /\ memCall.old = <<>>
            /\ memCall.recent = memCall.history
            /\ ~memCall.llm
            /\ memCall.hit \/ memCall.summarized
            /\ memCall.summarized => memCall.summary = NoPreviousText

\* a history of several messages came back whole with the fixed summary
C34_Witness ==
    /\ window_size = 0
    /\ memCall.op = "get_context_messages"
    /\ Len(memCall.history) >= 3
    /\ memCall.summarized
    /\ memCall.recent = memCall.history

\* C36: for a user who is not on the bypass list and whose caller records
\* each admitted message once, right after its is_allowed, and nothing else,
\* the recorded messages of the trailing 60 seconds never number more than
\* messages_per_minute + burst_allowance, and burst_count stays within
\* 0..burst_allowance.
C36_BurstCap ==
    \A u \in Users :
        u \notin vip_nodes /\ turns[u].paired
            => /\ Len(Kept(user_states[u].message_times))
                      <= messages_per_minute + burst_allowance
               /\ user_states[u].burst_count \in 0..burst_allowance

\* a disciplined user has used the limit and the whole burst
C36_Witness ==
    \E u \in Users :
        /\ u \notin vip_nodes /\ turns[u].paired
        /\ messages_per_minute = DefaultMessagesPerMinute
        /\ Len(Kept(user_states[u].message_times))
               = messages_per_minute + burst_allowance
        /\ user_states[u].burst_count = burst_allowance

\* C31: a reset deletes the user's summary: from the reset until a new
\* summary is made from messages sent after it, the store has no summary of
\* the user and no context built for the user has a summary in it.
C31_ResetForgets ==
    /\ \A u \in Users : origin[u].before_reset => SummaryRowsOf(u) = {}
    /\ /\ handling.pc \in {"append_assistant", "persist"}
       /\ origin[handling.user].before_reset
       => handling.summary = NoneText

\* the step is the command !reset of user u
IsReset(u) == storeCall'.op = "clear_history" /\ storeCall'.user = u /\ storeCall' # storeCall

\* what does hold: the reset itself deletes the user's messages and the
\* user's row of the summary table, and leaves the cache as it was
C31_StoreCleared ==
    [][\A u \in Users :
           IsReset(u) /\ handling.pc = "idle" /\ sumCall'.op = "clear_summary"
               => /\ RowsOf(conversations', u) = {}
                  /\ SummaryRowsOf(u)' = {}
                  /\ summaries' = summaries]_vars

\* the step is the end of a turn
IsTurnEnd == handling.pc = "persist" /\ handling'.pc = "idle"

\* the stored summary of user u is the cache entry of u
StoredIsCached(u) ==
    \E row \in SummaryRowsOf(u) :
        /\ SummaryRowsOf(u) = {row}
        /\ row.summary = summaries[u].summary
        /\ row.message_count = summaries[u].message_count

IsGenerate == handling.pc = "generate" /\ handling'.pc = "append_assistant"

\* the rows of user u whose count is within the threshold of an old segment
\* of length n
RowsWithin(u, n) ==
    { row \in SummaryRowsOf(u) : Abs(row.message_count - n) < summarize_threshold }

\* C35: when the cache has no entry for the user, as after a restart, and
\* the store has a summary of the user within summarize_threshold of the
\* old segment, a turn with a long history uses the stored summary and makes
\* no summarizer call.
C35_SeededFromStore ==
    [][/\ IsGenerate
       /\ ~IsShort(handling.history)
       /\ summaries[handling.user] = NoSummary
       /\ RowsWithin(handling.user, Len(OldMessages(handling.history))) # {}
       => /\ ~memCall'.summarized
          /\ \E row \in SummaryRowsOf(handling.user) :
                 handling'.summary = row.summary]_vars

\* what does hold: a restart empties the cache and leaves the summary table
\* and the messages as they are
C35_StoreKept ==
    [][memCall'.op = "init" /\ summaries' # summaries
           => /\ conversation_summaries' = conversation_summaries
              /\ conversations' = conversations
              /\ \A u \in Users : summaries'[u] = NoSummary]_vars

\* the messages of the old segment of the turn in hand that were not given to
\* the summarizer call which made the summary the turn uses
NotCovered ==
    { i \in 1..Len(OldMessages(handling.history)) :
          OldMessages(handling.history)[i] \notin SeqRange(origin[handling.user].covered) }

\* the backend of the turn in hand has built its context
ContextBuilt == handling.pc \in {"append_assistant", "persist"}

\* C38: whenever get_context returns a summary, fewer than summarize_threshold
\* messages of the current old segment were not part of the summarizer input
\* that produced the summary, also when the log is at its pruning cap (stated
\* here for a user who has not reset the conversation since the summary was
\* made, so that the stale cache entry of C31 plays no part)
C38_FreshEnough ==
    ContextBuilt /\ handling.summary # NoneText /\ ~origin[handling.user].before_reset
        => Cardinality(NotCovered) < summarize_threshold

\* what does hold: the summary returned was made for an old segment whose
\* length is within summarize_threshold of the length of the current one
C38_CountWithin ==
    ContextBuilt /\ handling.summary # NoneText /\ ~origin[handling.user].before_reset
        => Abs(Len(origin[handling.user].covered) - Len(OldMessages(handling.history)))
               < summarize_threshold

\* the roles of a message list alternate
Alternates(messages) ==
    \A i \in 1..(Len(messages) - 1) : messages[i].role # messages[i + 1].role

\* a message list made of whole user/assistant pairs followed by one query
PairsAndQuery(messages) ==
    /\ messages # <<>>
    /\ messages[1].role = "user"
    /\ Alternates(messages)
    /\ messages[Len(messages)].role = "user"

\* C39: in every turn of a user whose turns run one after another, the
\* messages handed to the model are whole pairs plus the current query: the
\* list begins with a user message and its roles alternate, so no pair is
\* split between the summarized or pruned part and the messages sent
C39_WholePairs == ContextBuilt => PairsAndQuery(handling.sent)

\* what does hold: the roles alternate and the list ends with the query
C39_EndsWithQuery ==
    ContextBuilt => /\ handling.sent # <<>>
                    /\ Alternates(handling.sent)
                    /\ handling.sent[Len(handling.sent)].role = "user"

\* the steps of generate_llm_response in the order of its statements
TurnOrder ==
    {<<"idle", "append_user">>, <<"append_user", "history">>,
     <<"history", "generate">>, <<"generate", "append_assistant">>,
     <<"append_assistant", "persist">>, <<"persist", "idle">>}

\* the assistant rows of the user of the turn in hand that the step added
NewReplies ==
    { r \in conversations' \ conversations :
          r.role = "assistant" /\ r.user_id = handling.user }

\* the step is the call of _persist_summary of the turn in hand
PersistRan ==
    \/ GetCachedSummary(handling.user) = NoSummary /\ UNCHANGED conversation_summaries
    \/ /\ GetCachedSummary(handling.user) # NoSummary
       /\ sumCall'.op = "store_summary"
       /\ sumCall'.user = handling.user
       /\ StoredIsCached(handling.user)'

\* C40: a turn whose user message was appended goes on, also when generate
\* raised, to append exactly one assistant message of the same user: the
\* exception ends in the turn, the apology text is the reply that is stored and
\* returned, and the summary is persisted afterwards
C40_AlwaysAnswered ==
    [][/\ handling'.pc # handling.pc => <<handling.pc, handling'.pc>> \in TurnOrder
       /\ IsGenerate /\ handling'.raised => handling'.response = ApologyText
       /\ IF handling.pc = "append_assistant" /\ handling'.pc = "persist"
          THEN /\ Cardinality(NewReplies) = 1
               /\ \A r \in NewReplies : r.content = handling.response
               /\ handling'.response = handling.response
          ELSE conversations' \ conversations \subseteq
                   { r \in conversations' : r.role = "user" }
       /\ IsTurnEnd => PersistRan /\ handling'.response = handling.response]_vars

\* a turn whose generate raised has ended with the apology as its reply, stored
\* as the user's newest message
C40_Witness ==
    /\ handling.pc = "idle"
    /\ handling.raised
    /\ handling.response = ApologyText
    /\ \E r \in NewestOf(RowsOf(conversations, handling.user), 1) :
           r.role = "assistant" /\ r.content = ApologyText

\* ---- the rate limiter with the turns of several users in flight: a turn
\* ---- calls is_allowed when it starts and record_message when its processing
\* ---- has finished, and in between the turns of other users start and
\* ---- finish.  A user has one turn in flight at a time; the limits are small
\* ---- enough for the global limit to be reached, without cooldown.
MaxFlightChecks == 3
MaxFlightTime == 2
FlightLimits == RateConfig(2, 2, 0, 1)

InitFlight ==
    /\ now = HalfWindow
    /\ InitMemory({DefaultWindowSize}, {DefaultSummarizeThreshold})
    /\ InitConversations({DefaultMaxMessagesPerUser}, {DefaultConversationTimeout})
    /\ InitSummaries
    /\ DefaultGenerator
    /\ InitConc
    /\ InitRateLimiter({FlightLimits}, {{}})

FlightStart ==
    /\ \E u \in Users :
           /\ ~turns[u].pending
           /\ turns[u].checks < MaxFlightChecks
           /\ IsAllowed(u)
    /\ UNCHANGED <<now, convVars, genVars, concVars>>
FlightFinish ==
    /\ \E u \in Users : turns[u].pending /\ RecordMessage(u)
    /\ UNCHANGED <<now, convVars, genVars, concVars>>
FlightTick ==
    /\ now < HalfWindow * (MaxFlightTime + 1)
    /\ now' = now + HalfWindow
    /\ UNCHANGED <<convVars, genVars, rateVars, concVars>>

NextFlight == FlightStart \/ FlightFinish \/ FlightTick

SpecFlight == InitFlight /\ [][NextFlight]_vars

\* every user is subject to the limits, and every message recorded was
\* admitted by the is_allowed call of its own turn
AllAdmitted == \A u \in Users : ~Bypasses(u) /\ turns[u].paired

\* C37: with the turns of several non-bypass users in flight, each checked at
\* its start and recorded when its processing has finished, the messages
\* recorded within the trailing window never number more than
\* global_messages_per_minute
C37_GlobalCap ==
    AllAdmitted => Len(Kept(global_times)) <= global_messages_per_minute

\* what does hold: the limit is passed by at most the turns that were in
\* flight with the one that reached it, one per other user
C37_Overshoot ==
    AllAdmitted =>
        Len(Kept(global_times)) <= global_messages_per_minute + Cardinality(Users) - 1

====
